---------------------------- MODULE Spec2Model ----------------------------
(***************************************************************************)
(* A model of the mo-de game server (backend/src/game): the per-room game  *)
(* state kept in the key-value store and the rules engine that loads it,   *)
(* mutates a local copy and saves it back.                                 *)
(*                                                                         *)
(* Abstractions: a Uuid is a small positive integer (the n-th player to    *)
(* join gets id n); Option::None is 0 for ids, <<>> for the dice pair and  *)
(* a record with some = FALSE for the turn and the auction; display names, *)
(* colors, the room id and the log ring are left out (no operation reads   *)
(* them back); active_trade and current_turn_idx never change and are left *)
(* out too.                                                                *)
(***************************************************************************)
EXTENDS Integers, Sequences, FiniteSets, TLC

VARIABLES game, result, lastOp, bcast, ledger, steps, hub, chans, hubOp,
          socks, workers

\* The store's value for the room and the bookkeeping of the last operation.
gameVars == <<game, result, lastOp, bcast, ledger, steps>>

\* The hub's rooms, the channels of the connections and the last hub call.
hubVars == <<hub, chans, hubOp>>

\* The running handle_socket tasks and the actions between load and save.
serverVars == <<socks, workers>>

vars == <<gameVars, hubVars, serverVars>>

-----------------------------------------------------------------------------
(* Bounds of the model.                                                    *)

\* Accepted (state-changing) operations explored from an initial state.
MaxSteps == 3
\* config.max_players of the rooms created in the lobby.
MaxPlayers == 3
\* Faces of a die the explored rolls draw from (the program draws 1..6).
MaxDie == 2
\* Invocations of the bankruptcy handler in one run.
MaxBankruptcies == 1
\* Get Out of Jail cards a player holds when the bankruptcy handler runs.
MaxCards == 2
\* Channels (client connections) created in one run.
MaxChannels == 3
\* Events a channel holds before no more are sent to the hub.
MaxQueue == 2
\* Client connections handled in one run of the server.
MaxSockets == 2
\* Actions of the engine in one run of the server.
MaxWorkers == 2

-----------------------------------------------------------------------------
(* Program constants.                                                      *)

BoardSize == 40
JailPosition == 10
GoSalary == 200
JailFee == 50
MaxJailTurns == 3
MaxDoubles == 3
MaxHouses == 5
MinPlayers == 2
DefaultStartingCash == 1500
NewPlayerBalance == 1500
\* The significand of the f32 constant 1.1 (engine.rs, unmortgage_property).
F32ElevenTenths == 9227469

-----------------------------------------------------------------------------
(* Board catalog (board.rs).                                               *)

NoGroup == "NoGroup"

TileGo ==
    [index |-> 0, tile_type |-> "Go", group |-> NoGroup, price |-> 0,
     rent_base |-> 0, rent_schedule |-> <<>>, mortgage_value |-> 0,
     build_cost |-> 0]

TileProperty(index, group, price, rent_base, rent_schedule, build_cost) ==
    [index |-> index, tile_type |-> "Property", group |-> group,
     price |-> price, rent_base |-> rent_base,
     rent_schedule |-> rent_schedule, mortgage_value |-> price \div 2,
     build_cost |-> build_cost]

TileRailroad(index) ==
    [index |-> index, tile_type |-> "Railroad", group |-> "Railroad",
     price |-> 200, rent_base |-> 25, rent_schedule |-> <<25, 50, 100, 200>>,
     mortgage_value |-> 100, build_cost |-> 0]

TileUtility(index) ==
    [index |-> index, tile_type |-> "Utility", group |-> "Utility",
     price |-> 150, rent_base |-> 4, rent_schedule |-> <<4, 10>>,
     mortgage_value |-> 75, build_cost |-> 0]

TilePlain(index, tile_type) ==
    [index |-> index, tile_type |-> tile_type, group |-> NoGroup,
     price |-> 0, rent_base |-> 0, rent_schedule |-> <<>>,
     mortgage_value |-> 0, build_cost |-> 0]

TileTax(index, amount) ==
    [index |-> index, tile_type |-> "Tax", group |-> NoGroup, price |-> 0,
     rent_base |-> amount, rent_schedule |-> <<>>, mortgage_value |-> 0,
     build_cost |-> 0]

\* BOARD[i + 1] is the tile of index i.
BOARD ==
    << TileGo,
       TileProperty(1, "Brown", 60, 2, <<10, 30, 90, 160, 250>>, 50),
       TilePlain(2, "CommunityChest"),
       TileProperty(3, "Brown", 60, 4, <<20, 60, 180, 320, 450>>, 50),
       TileTax(4, 200),
       TileRailroad(5),
       TileProperty(6, "LightBlue", 100, 6, <<30, 90, 270, 400, 550>>, 50),
       TilePlain(7, "Chance"),
       TileProperty(8, "LightBlue", 100, 6, <<30, 90, 270, 400, 550>>, 50),
       TileProperty(9, "LightBlue", 120, 8, <<40, 100, 300, 450, 600>>, 50),
       TilePlain(10, "Jail"),
       TileProperty(11, "Pink", 140, 10, <<50, 150, 450, 625, 750>>, 100),
       TileUtility(12),
       TileProperty(13, "Pink", 140, 10, <<50, 150, 450, 625, 750>>, 100),
       TileProperty(14, "Pink", 160, 12, <<60, 180, 500, 700, 900>>, 100),
       TileRailroad(15),
       TileProperty(16, "Orange", 180, 14, <<70, 200, 550, 750, 950>>, 100),
       TilePlain(17, "CommunityChest"),
       TileProperty(18, "Orange", 180, 14, <<70, 200, 550, 750, 950>>, 100),
       TileProperty(19, "Orange", 200, 16, <<80, 220, 600, 800, 1000>>, 100),
       TilePlain(20, "FreeParking"),
       TileProperty(21, "Red", 220, 18, <<90, 250, 700, 875, 1050>>, 150),
       TilePlain(22, "Chance"),
       TileProperty(23, "Red", 220, 18, <<90, 250, 700, 875, 1050>>, 150),
       TileProperty(24, "Red", 240, 20, <<100, 300, 750, 925, 1100>>, 150),
       TileRailroad(25),
       TileProperty(26, "Yellow", 260, 22, <<110, 330, 800, 975, 1150>>, 150),
       TileProperty(27, "Yellow", 260, 22, <<110, 330, 800, 975, 1150>>, 150),
       TileUtility(28),
       TileProperty(29, "Yellow", 280, 24, <<120, 360, 850, 1025, 1200>>, 150),
       TilePlain(30, "GoToJail"),
       TileProperty(31, "Green", 300, 26, <<130, 390, 900, 1100, 1275>>, 200),
       TileProperty(32, "Green", 300, 26, <<130, 390, 900, 1100, 1275>>, 200),
       TilePlain(33, "CommunityChest"),
       TileProperty(34, "Green", 320, 28, <<150, 450, 1000, 1200, 1400>>, 200),
       TileRailroad(35),
       TilePlain(36, "Chance"),
       TileProperty(37, "DarkBlue", 350, 35, <<175, 500, 1100, 1300, 1500>>, 200),
       TileTax(38, 100),
       TileProperty(39, "DarkBlue", 400, 50, <<200, 600, 1400, 1700, 2000>>, 200) >>

TileIdx == 0 .. (BoardSize - 1)

\* get_tile(idx): the tile, for an index on the board.
get_tile(idx) == BOARD[idx + 1]

\* is_ownable_tile(idx)
is_ownable_tile(idx) ==
    idx \notin {0, 2, 4, 7, 10, 17, 20, 22, 30, 33, 36, 38}

Ownable == {idx \in TileIdx : is_ownable_tile(idx)}

\* The indices of the board's tiles of one color group.
GroupTiles(group) == {idx \in TileIdx : get_tile(idx).group = group}

-----------------------------------------------------------------------------
(* State model (state.rs).                                                 *)

NoId == 0

DefaultConfig ==
    [max_players |-> 4, starting_cash |-> DefaultStartingCash,
     free_parking_jackpot |-> FALSE, auction_on_decline |-> TRUE,
     collect_rent_in_jail |-> FALSE, even_build_rule |-> TRUE,
     double_rent_on_full_set |-> TRUE]

NoTurn ==
    [some |-> FALSE, player_id |-> NoId, dice |-> <<>>, doubles_count |-> 0,
     phase |-> "None", can_roll_again |-> FALSE]

\* TurnState::new
NewTurnState(player_id) ==
    [some |-> TRUE, player_id |-> player_id, dice |-> <<>>,
     doubles_count |-> 0, phase |-> "WaitingForRoll",
     can_roll_again |-> FALSE]

\* TurnState::dice_sum
dice_sum(turn) == IF turn.dice = <<>> THEN 0 ELSE turn.dice[1] + turn.dice[2]

\* Player::new
NewPlayer(id, is_host, is_bot) ==
    [id |-> id, position |-> 0, balance |-> NewPlayerBalance,
     in_jail |-> FALSE, jail_turns |-> 0, get_out_cards |-> 0,
     is_bot |-> is_bot, is_bankrupt |-> FALSE, is_host |-> is_host]

\* PropertyState::default
DefaultPropertyState == [owner |-> NoId, houses |-> 0, is_mortgaged |-> FALSE]

NoAuction ==
    [some |-> FALSE, tile_idx |-> 0, current_bid |-> 0,
     highest_bidder |-> NoId, passed_players |-> <<>>]

\* AuctionState::new
NewAuctionState(tile_idx) ==
    [some |-> TRUE, tile_idx |-> tile_idx, current_bid |-> 0,
     highest_bidder |-> NoId, passed_players |-> <<>>]

\* GameState::new
NewGameState(config) ==
    [phase |-> "Lobby", turn |-> NoTurn, turn_order |-> <<>>,
     players |-> <<>>,
     properties |-> [idx \in Ownable |-> DefaultPropertyState],
     auction |-> NoAuction, pot_money |-> 0, config |-> config]

\* The index in g.players of the player with this id, 0 when there is none
\* (players.iter().position(|p| p.id == id)).
PlayerIdx(g, id) ==
    IF \E i \in 1 .. Len(g.players) : g.players[i].id = id
    THEN CHOOSE i \in 1 .. Len(g.players) :
            /\ g.players[i].id = id
            /\ \A j \in 1 .. (i - 1) : g.players[j].id # id
    ELSE 0

\* GameState::get_player, for an id that PlayerIdx finds.
get_player(g, id) == g.players[PlayerIdx(g, id)]

HasPlayer(g, id) == PlayerIdx(g, id) # 0

PlayerIds(g) == {g.players[i].id : i \in 1 .. Len(g.players)}

\* GameState::active_player_count
active_player_count(g) ==
    Cardinality({i \in 1 .. Len(g.players) : ~g.players[i].is_bankrupt})

\* The ids of order whose player exists and is not bankrupt, in order.
RECURSIVE FilterActive(_, _)
FilterActive(g, order) ==
    IF order = <<>> THEN <<>>
    ELSE LET id == Head(order)
             keep == HasPlayer(g, id) /\ ~get_player(g, id).is_bankrupt
         IN  (IF keep THEN <<id>> ELSE <<>>) \o FilterActive(g, Tail(order))

\* The first index of seq holding x, 0 when there is none.
PositionOf(seq, x) ==
    IF \E i \in 1 .. Len(seq) : seq[i] = x
    THEN CHOOSE i \in 1 .. Len(seq) :
            seq[i] = x /\ \A j \in 1 .. (i - 1) : seq[j] # x
    ELSE 0

\* GameState::next_player_id; NoId when no player is active.
next_player_id(g) ==
    LET active == FilterActive(g, g.turn_order)
        found == IF g.turn.some THEN PositionOf(active, g.turn.player_id)
                 ELSE 0
        \* 0-based: position(..).unwrap_or(0)
        current_idx == IF found = 0 THEN 0 ELSE found - 1
        next_idx == (current_idx + 1) % Len(active)
    IN  IF active = <<>> THEN NoId ELSE active[next_idx + 1]


-----------------------------------------------------------------------------
(* What one operation returns: its AppResult (res), the value the store    *)
(* holds for the room when it returns (game: the saved copy, or the loaded *)
(* one when save_game was not reached), the server events it broadcast, in *)
(* order (ev), and the money it moved between the players and the bank     *)
(* (flow, bookkeeping for the conservation law).                           *)

\* `let v = value;` followed by Body(v): the value is computed once.
Bind(value, Body(_)) == CHOOSE out \in {Body(v) : v \in {value}} : TRUE

ZeroFlow ==
    [tax |-> 0, go |-> 0, jackpot |-> 0, bank_paid |-> 0,
     bank_received |-> 0, wiped |-> 0]

AddFlow(a, b) ==
    [tax |-> a.tax + b.tax, go |-> a.go + b.go,
     jackpot |-> a.jackpot + b.jackpot,
     bank_paid |-> a.bank_paid + b.bank_paid,
     bank_received |-> a.bank_received + b.bank_received,
     wiped |-> a.wiped + b.wiped]

\* Ok(()) after save_game(&game).
Saved(g, ev, flow) ==
    [res |-> "Ok", game |-> g, ev |-> ev, flow |-> flow, saved |-> TRUE]

\* Err(kind) returned before save_game: the store keeps the loaded state.
Failed(loaded, kind, ev) ==
    [res |-> kind, game |-> loaded, ev |-> ev, flow |-> ZeroFlow,
     saved |-> FALSE]

\* Ok(()) without a call of save_game.
Unsaved(loaded, ev) ==
    [res |-> "Ok", game |-> loaded, ev |-> ev, flow |-> ZeroFlow,
     saved |-> FALSE]

EvGameState == [type |-> "GameState"]

-----------------------------------------------------------------------------
(* Lobby operations (engine.rs).                                           *)

\* GameEngine::create_room: the stored state of a new room.
create_room(config) ==
    LET g == NewGameState(config)
    IN  [g EXCEPT !.players = Append(@, NewPlayer(1, TRUE, FALSE))]

\* GameEngine::join_room
join_room(g) ==
    IF g.phase # "Lobby" THEN Failed(g, "BadRequest", <<>>)
    ELSE IF Len(g.players) >= g.config.max_players
    THEN Failed(g, "BadRequest", <<>>)
    ELSE LET player_id == Len(g.players) + 1
         IN  Saved([g EXCEPT !.players =
                        Append(@, NewPlayer(player_id, FALSE, FALSE))],
                   <<>>, ZeroFlow)

\* GameEngine::add_bot
add_bot(g) ==
    IF g.phase # "Lobby" THEN Failed(g, "BadRequest", <<>>)
    ELSE IF Len(g.players) >= g.config.max_players
    THEN Failed(g, "BadRequest", <<>>)
    ELSE LET player_id == Len(g.players) + 1
         IN  Saved([g EXCEPT !.players =
                        Append(@, NewPlayer(player_id, FALSE, TRUE))],
                   <<>>, ZeroFlow)

\* order.swap(i, j), on 0-based indices.
MutSwapOverwrite(order, i, j) == [order EXCEPT ![i + 1] = order[j + 1]]

Swap(order, i, j) ==
    [order EXCEPT ![i + 1] = order[j + 1], ![j + 1] = order[i + 1]]

\* The Fisher-Yates loop of start_game, from index i down to 1; js[i] is the
\* value rng.gen_range(0..=i) returned at index i.
RECURSIVE Shuffle(_, _, _)
Shuffle(order, i, js) ==
    IF i < 1 THEN order ELSE Shuffle(Swap(order, i, js[i]), i - 1, js)

\* The draws the shuffle of n ids can make.
ShuffleDraws(n) ==
    {js \in [1 .. (n - 1) -> 0 .. (n - 1)] : \A i \in 1 .. (n - 1) : js[i] <= i}

\* GameEngine::start_game
MutStartGameKeepsBalances(g, js) ==
    IF g.phase # "Lobby" THEN Failed(g, "BadRequest", <<>>)
    ELSE IF Len(g.players) < MinPlayers THEN Failed(g, "BadRequest", <<>>)
    ELSE LET ids == [i \in 1 .. Len(g.players) |-> g.players[i].id]
             order == Shuffle(ids, Len(ids) - 1, js)
             started == [g EXCEPT !.turn_order = order,
                                  !.turn = NewTurnState(order[1]),
                                  !.phase = "Playing"]
         IN  Saved(started, <<EvGameState>>, ZeroFlow)

start_game(g, js) ==
    IF g.phase # "Lobby" THEN Failed(g, "BadRequest", <<>>)
    ELSE IF Len(g.players) < MinPlayers THEN Failed(g, "BadRequest", <<>>)
    ELSE LET funded == [i \in 1 .. Len(g.players) |->
                           [g.players[i] EXCEPT
                               !.balance = g.config.starting_cash]]
             ids == [i \in 1 .. Len(g.players) |-> g.players[i].id]
             order == Shuffle(ids, Len(ids) - 1, js)
             started == [g EXCEPT !.players = funded,
                                  !.turn_order = order,
                                  !.turn = NewTurnState(order[1]),
                                  !.phase = "Playing"]
         IN  Saved(started, <<EvGameState>>, ZeroFlow)

-----------------------------------------------------------------------------
(* Turn loop (engine.rs).                                                  *)

\* GameEngine::send_to_jail
send_to_jail(g, player_id) ==
    LET idx == PlayerIdx(g, player_id)
        jailed == IF idx # 0
                  THEN [g EXCEPT !.players[idx].position = JailPosition,
                                 !.players[idx].in_jail = TRUE,
                                 !.players[idx].jail_turns = 0]
                  ELSE g
    IN  IF jailed.turn.some
        THEN [jailed EXCEPT !.turn.phase = "TurnEnd",
                            !.turn.can_roll_again = FALSE,
                            !.turn.doubles_count = 0]
        ELSE jailed

\* GameEngine::transfer_money
MutTransferNoDebit(g, from, to, amount) ==
    LET fi == PlayerIdx(g, from)
        ti == PlayerIdx(g, to)
    IN  IF fi # 0 /\ ti # 0
        THEN [g EXCEPT !.players[ti].balance = @ + amount]
        ELSE g

transfer_money(g, from, to, amount) ==
    LET fi == PlayerIdx(g, from)
        ti == PlayerIdx(g, to)
    IN  IF fi # 0 /\ ti # 0
        THEN LET debited == [g EXCEPT !.players[fi].balance = @ - amount]
             IN  [debited EXCEPT !.players[ti].balance = @ + amount]
        ELSE g

\* GameEngine::player_has_full_set
player_has_full_set(g, player_id, group) ==
    \A idx \in GroupTiles(group) :
        idx \in DOMAIN g.properties /\ g.properties[idx].owner = player_id

\* The number of tiles of one type that owner_id owns (the filter().count()
\* of calculate_rent).
OwnedOfType(g, owner_id, tile_type) ==
    Cardinality({idx \in DOMAIN g.properties :
                    /\ g.properties[idx].owner = owner_id
                    /\ get_tile(idx).tile_type = tile_type})

\* GameEngine::calculate_rent
MutCalculateRentBaseOnly(g, tile_idx) ==
    IF tile_idx \notin DOMAIN g.properties THEN 0
    ELSE IF g.properties[tile_idx].owner = NoId THEN 0
    ELSE IF g.properties[tile_idx].is_mortgaged THEN 0
    ELSE get_tile(tile_idx).rent_base

calculate_rent(g, tile_idx) ==
    LET tile == get_tile(tile_idx)
    IN  IF tile_idx \notin DOMAIN g.properties THEN 0
        ELSE LET prop_state == g.properties[tile_idx]
                 owner_id == prop_state.owner
             IN  IF owner_id = NoId THEN 0
                 ELSE IF prop_state.is_mortgaged THEN 0
                 ELSE CASE tile.tile_type = "Property" ->
                             IF prop_state.houses > 0
                             THEN IF prop_state.houses <= Len(tile.rent_schedule)
                                  THEN tile.rent_schedule[prop_state.houses]
                                  ELSE tile.rent_base
                             ELSE IF /\ player_has_full_set(g, owner_id, tile.group)
                                     /\ g.config.double_rent_on_full_set
                                  THEN tile.rent_base * 2
                                  ELSE tile.rent_base
                        [] tile.tile_type = "Railroad" ->
                             LET rr_count == OwnedOfType(g, owner_id, "Railroad")
                                 \* rr_count.saturating_sub(1), 0-based
                                 at == IF rr_count = 0 THEN 0 ELSE rr_count - 1
                             IN  IF at + 1 <= Len(tile.rent_schedule)
                                 THEN tile.rent_schedule[at + 1]
                                 ELSE 25
                        [] tile.tile_type = "Utility" ->
                             LET util_count == OwnedOfType(g, owner_id, "Utility")
                                 multiplier == IF util_count >= 2 THEN 10 ELSE 4
                                 sum == IF g.turn.some THEN dice_sum(g.turn) ELSE 7
                             IN  sum * multiplier
                        [] OTHER -> 0

\* The turn phase set by `if let Some(t) = game.turn.as_mut()`.
SetTurnPhase(g, phase) ==
    IF g.turn.some THEN [g EXCEPT !.turn.phase = phase] ELSE g

\* GameEngine::handle_tile_landing: the game after the landing and the money
\* it moved to or from the bank.
MutLandingAlwaysOffers(g, player_id, tile_idx) ==
    IF is_ownable_tile(tile_idx)
    THEN [game |-> SetTurnPhase(g, "BuyDecision"), flow |-> ZeroFlow]
    ELSE [game |-> SetTurnPhase(g, "TurnEnd"), flow |-> ZeroFlow]

handle_tile_landing(g, player_id, tile_idx) ==
    LET tile == get_tile(tile_idx)
        idx == PlayerIdx(g, player_id)
    IN  CASE tile.tile_type = "Go" ->
                [game |-> SetTurnPhase(g, "TurnEnd"), flow |-> ZeroFlow]
          [] tile.tile_type \in {"Property", "Railroad", "Utility"} ->
                LET owner == IF tile_idx \in DOMAIN g.properties
                             THEN g.properties[tile_idx].owner ELSE NoId
                IN  IF owner = NoId
                    THEN [game |-> SetTurnPhase(g, "BuyDecision"),
                          flow |-> ZeroFlow]
                    ELSE IF owner = player_id
                    THEN [game |-> SetTurnPhase(g, "TurnEnd"), flow |-> ZeroFlow]
                    ELSE LET is_mortgaged == g.properties[tile_idx].is_mortgaged
                             owner_in_jail == IF HasPlayer(g, owner)
                                              THEN get_player(g, owner).in_jail
                                              ELSE FALSE
                             collect_in_jail == g.config.collect_rent_in_jail
                             paid == IF /\ ~is_mortgaged
                                        /\ (~owner_in_jail \/ collect_in_jail)
                                     THEN transfer_money(g, player_id, owner,
                                              calculate_rent(g, tile_idx))
                                     ELSE g
                         IN  [game |-> SetTurnPhase(paid, "TurnEnd"),
                              flow |-> ZeroFlow]
          [] tile.tile_type = "Tax" ->
                LET tax == tile.rent_base
                    taxed == IF idx # 0
                             THEN [g EXCEPT
                                     !.players[idx].balance = @ - tax,
                                     !.pot_money =
                                        IF g.config.free_parking_jackpot
                                        THEN @ + tax ELSE @]
                             ELSE g
                IN  [game |-> SetTurnPhase(taxed, "TurnEnd"),
                     flow |-> [ZeroFlow EXCEPT
                                 !.tax = IF idx # 0 THEN tax ELSE 0]]
          [] tile.tile_type \in {"Chance", "CommunityChest", "Jail"} ->
                [game |-> SetTurnPhase(g, "TurnEnd"), flow |-> ZeroFlow]
          [] tile.tile_type = "FreeParking" ->
                IF g.config.free_parking_jackpot /\ g.pot_money > 0
                THEN LET pot == g.pot_money
                         credited == IF idx # 0
                                     THEN [g EXCEPT
                                             !.players[idx].balance = @ + pot]
                                     ELSE g
                         emptied == [credited EXCEPT !.pot_money = 0]
                     IN  [game |-> SetTurnPhase(emptied, "TurnEnd"),
                          flow |-> [ZeroFlow EXCEPT
                                      !.jackpot = IF idx # 0 THEN pot ELSE 0]]
                ELSE [game |-> SetTurnPhase(g, "TurnEnd"), flow |-> ZeroFlow]
          [] tile.tile_type = "GoToJail" ->
                [game |-> send_to_jail(g, player_id), flow |-> ZeroFlow]

\* `doubles_count >= 3` of roll_dice.
MutThreeDoublesLate(doubles_count) == doubles_count > MaxDoubles

ThreeDoubles(doubles_count) == doubles_count >= MaxDoubles

\* passed_go of roll_dice.
MutPassedGoNotOnGo(old_pos, new_pos) == new_pos < old_pos /\ new_pos # 0

MutPassedGoAlways(old_pos, new_pos) == new_pos <= old_pos + BoardSize

PassedGo(old_pos, new_pos) == new_pos < old_pos /\ old_pos # 0

\* The in-jail branch of roll_dice for the player at index idx: the game,
\* whether the player stays in jail (the roll ends there), the events
\* broadcast and the bail paid.
MutJailRollNeverForced(g, idx, is_doubles) ==
    IF ~g.players[idx].in_jail
    THEN [game |-> g, stays |-> FALSE, ev |-> <<>>, flow |-> ZeroFlow]
    ELSE IF is_doubles
    THEN [game |-> [g EXCEPT !.players[idx].in_jail = FALSE,
                             !.players[idx].jail_turns = 0],
          stays |-> FALSE,
          ev |-> <<[type |-> "PlayerFreed", player_id |-> g.players[idx].id,
                    method |-> "dice"]>>,
          flow |-> ZeroFlow]
    ELSE [game |-> [g EXCEPT !.players[idx].jail_turns = @ + 1,
                             !.turn.phase = "TurnEnd",
                             !.turn.can_roll_again = FALSE],
          stays |-> TRUE, ev |-> <<>>, flow |-> ZeroFlow]

JailRoll(g, idx, is_doubles) ==
    IF ~g.players[idx].in_jail
    THEN [game |-> g, stays |-> FALSE, ev |-> <<>>, flow |-> ZeroFlow]
    ELSE IF is_doubles
    THEN [game |-> [g EXCEPT !.players[idx].in_jail = FALSE,
                             !.players[idx].jail_turns = 0],
          stays |-> FALSE,
          ev |-> <<[type |-> "PlayerFreed", player_id |-> g.players[idx].id,
                    method |-> "dice"]>>,
          flow |-> ZeroFlow]
    ELSE LET turns == g.players[idx].jail_turns + 1
         IN  IF turns >= MaxJailTurns
             THEN [game |-> [g EXCEPT !.players[idx].balance = @ - JailFee,
                                      !.players[idx].in_jail = FALSE,
                                      !.players[idx].jail_turns = 0],
                   stays |-> FALSE, ev |-> <<>>,
                   flow |-> [ZeroFlow EXCEPT !.bank_paid = JailFee]]
             ELSE [game |-> [g EXCEPT !.players[idx].jail_turns = turns,
                                      !.turn.phase = "TurnEnd",
                                      !.turn.can_roll_again = FALSE],
                   stays |-> TRUE, ev |-> <<>>, flow |-> ZeroFlow]

\* The movement step of roll_dice for the player at index idx.
MovePlayer(g, idx, sum) ==
    LET old_pos == g.players[idx].position
        new_pos == (old_pos + sum) % BoardSize
        passed_go == PassedGo(old_pos, new_pos)
        moved == [g EXCEPT !.players[idx].position = new_pos]
        credited == IF passed_go
                    THEN [moved EXCEPT !.players[idx].balance = @ + GoSalary]
                    ELSE moved
    IN  [game |-> credited, from |-> old_pos, to |-> new_pos,
         passed_go |-> passed_go,
         flow |-> [ZeroFlow EXCEPT
                     !.go = IF passed_go THEN GoSalary ELSE 0]]

\* The rest of roll_dice once the player has moved and landed: doubles
\* grant another roll unless the landing jailed the player.
MutRollLandedIgnoresJail(idx, player_id, is_doubles, evDice, jr, mv, landed) ==
    LET final == IF is_doubles /\ landed.game.turn.some
                 THEN [landed.game EXCEPT !.turn.can_roll_again = TRUE]
                 ELSE landed.game
        evMoved == [type |-> "PlayerMoved", player_id |-> player_id,
                    from |-> mv.from, to |-> mv.to,
                    passed_go |-> mv.passed_go]
    IN  Saved(final,
              <<evDice>> \o jr.ev \o <<evMoved, EvGameState>>,
              AddFlow(jr.flow, AddFlow(mv.flow, landed.flow)))

RollLanded(idx, player_id, is_doubles, evDice, jr, mv, landed) ==
    LET final == IF /\ is_doubles
                    /\ ~landed.game.players[idx].in_jail
                    /\ landed.game.turn.some
                 THEN [landed.game EXCEPT !.turn.can_roll_again = TRUE]
                 ELSE landed.game
        evMoved == [type |-> "PlayerMoved", player_id |-> player_id,
                    from |-> mv.from, to |-> mv.to,
                    passed_go |-> mv.passed_go]
    IN  Saved(final,
              <<evDice>> \o jr.ev \o <<evMoved, EvGameState>>,
              AddFlow(jr.flow, AddFlow(mv.flow, landed.flow)))

\* roll_dice after the dice are stored in the turn (rolled); g is the state
\* that get_game loaded.
RollOutcome(g, rolled, d1, d2) ==
    LET is_doubles == (d1 = d2)
        player_id == rolled.turn.player_id
        evDice == [type |-> "DiceResult", player_id |-> player_id,
                   dice |-> <<d1, d2>>, is_doubles |-> is_doubles]
        idx == PlayerIdx(rolled, player_id)
    IN  IF ThreeDoubles(rolled.turn.doubles_count)
        THEN Saved(send_to_jail(rolled, player_id),
                   <<evDice, [type |-> "PlayerJailed",
                              player_id |-> player_id]>>,
                   ZeroFlow)
        ELSE IF idx = 0 THEN Failed(g, "GameError", <<evDice>>)
        ELSE Bind(JailRoll(rolled, idx, is_doubles), LAMBDA jr :
             IF jr.stays THEN Saved(jr.game, <<evDice>> \o jr.ev, jr.flow)
             ELSE Bind(MovePlayer(jr.game, idx, d1 + d2), LAMBDA mv :
                  Bind(handle_tile_landing(mv.game, player_id, mv.to),
                       LAMBDA landed :
                          RollLanded(idx, player_id, is_doubles, evDice,
                                     jr, mv, landed))))

\* GameEngine::roll_dice, with the two values the generator returned.
roll_dice(g, d1, d2) ==
    IF ~g.turn.some THEN Failed(g, "GameError", <<>>)
    ELSE IF g.turn.phase # "WaitingForRoll" THEN Failed(g, "GameError", <<>>)
    ELSE Bind([g EXCEPT !.turn.dice = <<d1, d2>>,
                        !.turn.phase = "Moving",
                        !.turn.doubles_count = IF d1 = d2 THEN @ + 1 ELSE @],
              LAMBDA rolled : RollOutcome(g, rolled, d1, d2))

\* GameEngine::buy_property
buy_property(g) ==
    IF ~g.turn.some THEN Failed(g, "GameError", <<>>)
    ELSE IF g.turn.phase # "BuyDecision" THEN Failed(g, "GameError", <<>>)
    ELSE
    LET player_id == g.turn.player_id
        idx == PlayerIdx(g, player_id)
        position == IF idx # 0 THEN g.players[idx].position ELSE 0
        tile == get_tile(position)
    IN  IF idx = 0 THEN Failed(g, "GameError", <<>>)
        ELSE IF g.players[idx].balance < tile.price
        THEN Failed(g, "GameError", <<>>)
        ELSE
        LET paid == [g EXCEPT !.players[idx].balance = @ - tile.price]
            owned == IF position \in DOMAIN paid.properties
                     THEN [paid EXCEPT
                             !.properties[position].owner = player_id]
                     ELSE paid
        IN  Saved(SetTurnPhase(owned, "TurnEnd"),
                  <<[type |-> "PropertyBought", tile_idx |-> position,
                     player_id |-> player_id, price |-> tile.price]>>,
                  [ZeroFlow EXCEPT !.bank_paid = tile.price])

\* GameEngine::start_auction
start_auction(g) ==
    IF ~g.turn.some THEN Failed(g, "GameError", <<>>)
    ELSE IF g.turn.phase # "BuyDecision" THEN Failed(g, "GameError", <<>>)
    ELSE
    LET idx == PlayerIdx(g, g.turn.player_id)
        position == IF idx # 0 THEN g.players[idx].position ELSE 0
    IN  IF ~g.config.auction_on_decline
        THEN Saved(SetTurnPhase(g, "TurnEnd"), <<>>, ZeroFlow)
        ELSE Saved(SetTurnPhase([g EXCEPT
                                    !.auction = NewAuctionState(position)],
                                "Auction"),
                   <<[type |-> "AuctionStart", tile_idx |-> position,
                      starting_price |-> 0]>>,
                   ZeroFlow)

\* GameEngine::place_bid
MutPlaceBidSaveFirst(g, player_id, amount) ==
    LET player_balance == IF HasPlayer(g, player_id)
                          THEN get_player(g, player_id).balance ELSE 0
        current_bid == IF g.auction.some THEN g.auction.current_bid ELSE 0
        bid == IF g.auction.some
               THEN [g EXCEPT !.auction.current_bid = amount,
                              !.auction.highest_bidder = player_id]
               ELSE g
    IN  IF amount <= current_bid THEN Failed(g, "GameError", <<>>)
        ELSE IF player_balance < amount THEN Failed(bid, "GameError", <<>>)
        ELSE Saved(bid,
                   <<[type |-> "BidPlaced", player_id |-> player_id,
                      amount |-> amount]>>,
                   ZeroFlow)

MutPlaceBidAcceptEqual(g, player_id, amount) ==
    LET player_balance == IF HasPlayer(g, player_id)
                          THEN get_player(g, player_id).balance ELSE 0
        current_bid == IF g.auction.some THEN g.auction.current_bid ELSE 0
    IN  IF player_balance < amount THEN Failed(g, "GameError", <<>>)
        ELSE IF amount < current_bid THEN Failed(g, "GameError", <<>>)
        ELSE Saved(IF g.auction.some
                   THEN [g EXCEPT !.auction.current_bid = amount,
                                  !.auction.highest_bidder = player_id]
                   ELSE g,
                   <<[type |-> "BidPlaced", player_id |-> player_id,
                      amount |-> amount]>>,
                   ZeroFlow)

place_bid(g, player_id, amount) ==
    LET player_balance == IF HasPlayer(g, player_id)
                          THEN get_player(g, player_id).balance ELSE 0
        current_bid == IF g.auction.some THEN g.auction.current_bid ELSE 0
    IN  IF player_balance < amount THEN Failed(g, "GameError", <<>>)
        ELSE IF amount <= current_bid THEN Failed(g, "GameError", <<>>)
        ELSE Saved(IF g.auction.some
                   THEN [g EXCEPT !.auction.current_bid = amount,
                                  !.auction.highest_bidder = player_id]
                   ELSE g,
                   <<[type |-> "BidPlaced", player_id |-> player_id,
                      amount |-> amount]>>,
                   ZeroFlow)

\* GameEngine::end_auction
MutEndAuctionNoDebit(g) ==
    IF ~g.auction.some
    THEN [saved |-> FALSE, game |-> g, ev |-> <<>>, flow |-> ZeroFlow]
    ELSE
    LET auction == g.auction
        taken == [g EXCEPT !.auction = NoAuction]
        tile_idx == auction.tile_idx
        winner_id == auction.highest_bidder
        paid == IF winner_id # NoId /\ tile_idx \in DOMAIN taken.properties
                THEN [taken EXCEPT !.properties[tile_idx].owner = winner_id]
                ELSE taken
    IN  [saved |-> TRUE,
         game |-> SetTurnPhase(paid, "TurnEnd"),
         ev |-> <<[type |-> "AuctionEnd", tile_idx |-> tile_idx,
                   winner |-> winner_id,
                   amount |-> IF winner_id # NoId
                              THEN auction.current_bid ELSE 0]>>,
         flow |-> ZeroFlow]

\* GameEngine::end_auction, on the caller's local copy: the game it saves
\* (none when there is no auction), the events and the winner's payment.
end_auction(g) ==
    IF ~g.auction.some
    THEN [saved |-> FALSE, game |-> g, ev |-> <<>>, flow |-> ZeroFlow]
    ELSE
    LET auction == g.auction
        taken == [g EXCEPT !.auction = NoAuction]
        tile_idx == auction.tile_idx
        winner_id == auction.highest_bidder
        amount == auction.current_bid
        idx == PlayerIdx(taken, winner_id)
        paid == IF winner_id # NoId /\ idx # 0
                THEN LET debited == [taken EXCEPT
                                       !.players[idx].balance = @ - amount]
                     IN  IF tile_idx \in DOMAIN debited.properties
                         THEN [debited EXCEPT
                                 !.properties[tile_idx].owner = winner_id]
                         ELSE debited
                ELSE taken
    IN  [saved |-> TRUE,
         game |-> SetTurnPhase(paid, "TurnEnd"),
         ev |-> <<[type |-> "AuctionEnd", tile_idx |-> tile_idx,
                   winner |-> winner_id,
                   amount |-> IF winner_id # NoId THEN amount ELSE 0]>>,
         flow |-> [ZeroFlow EXCEPT
                     !.bank_paid = IF winner_id # NoId /\ idx # 0
                                   THEN amount ELSE 0]]

\* `passed_count >= active_count - 1 || passed_count >= active_count` of
\* pass_bid, for the case that the subtraction does not overflow.
MutAuctionEndsOneEarlier(passed_count, active_count) ==
    IF active_count = 0 THEN passed_count >= active_count
    ELSE \/ passed_count >= active_count - 2
         \/ passed_count >= active_count

AuctionEnds(passed_count, active_count) ==
    IF active_count = 0 THEN passed_count >= active_count
    ELSE \/ passed_count >= active_count - 1
         \/ passed_count >= active_count

\* GameEngine::pass_bid. `active_count - 1` is a usize subtraction: with no
\* active player it panics when the build checks overflow (checked) and
\* wraps to usize::MAX otherwise.
pass_bid(g, player_id, checked) ==
    LET passed == IF /\ g.auction.some
                     /\ PositionOf(g.auction.passed_players, player_id) = 0
                  THEN [g EXCEPT !.auction.passed_players =
                                    Append(@, player_id)]
                  ELSE g
        evPassed == [type |-> "BidPassed", player_id |-> player_id]
        active_count == active_player_count(passed)
        passed_count == IF passed.auction.some
                        THEN Len(passed.auction.passed_players) ELSE 0
        ends == AuctionEnds(passed_count, active_count)
    IN  IF active_count = 0 /\ checked THEN Failed(g, "Panic", <<evPassed>>)
        ELSE IF ends
        THEN LET ended == end_auction(passed)
             IN  IF ended.saved
                 THEN Saved(ended.game, <<evPassed>> \o ended.ev, ended.flow)
                 ELSE Unsaved(g, <<evPassed>>)
        ELSE Saved(passed, <<evPassed>>, ZeroFlow)

\* GameEngine::pay_jail
pay_jail(g) ==
    LET idx == PlayerIdx(g, g.turn.player_id)
    IN  IF ~g.turn.some \/ idx = 0 THEN Failed(g, "GameError", <<>>)
        ELSE IF ~g.players[idx].in_jail THEN Failed(g, "GameError", <<>>)
        ELSE IF g.players[idx].balance < JailFee
        THEN Failed(g, "GameError", <<>>)
        ELSE LET paid == [g EXCEPT !.players[idx].balance = @ - JailFee,
                                   !.players[idx].in_jail = FALSE,
                                   !.players[idx].jail_turns = 0]
             IN  Saved(SetTurnPhase(paid, "WaitingForRoll"),
                       <<[type |-> "PlayerFreed",
                          player_id |-> g.turn.player_id,
                          method |-> "paid"]>>,
                       [ZeroFlow EXCEPT !.bank_paid = JailFee])

\* GameEngine::end_turn
end_turn(g) ==
    IF g.turn.some /\ g.turn.can_roll_again
    THEN Saved([g EXCEPT !.turn.phase = "WaitingForRoll",
                         !.turn.can_roll_again = FALSE],
               <<>>, ZeroFlow)
    ELSE
    LET next == next_player_id(g)
        turned == [g EXCEPT !.turn = NewTurnState(next)]
    IN  IF next = NoId THEN Failed(g, "GameError", <<>>)
        ELSE IF active_player_count(turned) <= 1
        THEN LET widx == CHOOSE i \in 1 .. Len(turned.players) :
                            /\ ~turned.players[i].is_bankrupt
                            /\ \A j \in 1 .. (i - 1) :
                                  turned.players[j].is_bankrupt
             IN  Saved([turned EXCEPT !.phase = "GameOver"],
                       <<[type |-> "GameOver",
                          winner |-> turned.players[widx].id]>>,
                       ZeroFlow)
        ELSE Saved(turned,
                   <<[type |-> "TurnChanged", player_id |-> next]>>,
                   ZeroFlow)

\* build_house without the check of the house count.
MutBuildHouseNoCap(g, player_id, tile_idx) ==
    LET tile == get_tile(tile_idx)
        idx == PlayerIdx(g, player_id)
        current_houses == IF tile_idx \in DOMAIN g.properties
                          THEN g.properties[tile_idx].houses ELSE 0
    IN  IF tile.tile_type # "Property" THEN Failed(g, "GameError", <<>>)
        ELSE IF tile.group = NoGroup THEN Failed(g, "GameError", <<>>)
        ELSE IF ~player_has_full_set(g, player_id, tile.group)
        THEN Failed(g, "GameError", <<>>)
        ELSE IF idx = 0 THEN Failed(g, "GameError", <<>>)
        ELSE IF g.players[idx].balance < tile.build_cost
        THEN Failed(g, "GameError", <<>>)
        ELSE
        LET paid == [g EXCEPT !.players[idx].balance = @ - tile.build_cost]
            built == IF tile_idx \in DOMAIN paid.properties
                     THEN [paid EXCEPT !.properties[tile_idx].houses = @ + 1]
                     ELSE paid
        IN  Saved(built,
                  <<[type |-> "BuildingBuilt", tile_idx |-> tile_idx,
                     player_id |-> player_id,
                     houses |-> current_houses + 1]>>,
                  [ZeroFlow EXCEPT !.bank_paid = tile.build_cost])

\* GameEngine::build_house
build_house(g, player_id, tile_idx) ==
    LET tile == get_tile(tile_idx)
        idx == PlayerIdx(g, player_id)
        current_houses == IF tile_idx \in DOMAIN g.properties
                          THEN g.properties[tile_idx].houses ELSE 0
    IN  IF tile.tile_type # "Property" THEN Failed(g, "GameError", <<>>)
        ELSE IF tile.group = NoGroup THEN Failed(g, "GameError", <<>>)
        ELSE IF ~player_has_full_set(g, player_id, tile.group)
        THEN Failed(g, "GameError", <<>>)
        ELSE IF idx = 0 THEN Failed(g, "GameError", <<>>)
        ELSE IF g.players[idx].balance < tile.build_cost
        THEN Failed(g, "GameError", <<>>)
        ELSE IF current_houses >= MaxHouses THEN Failed(g, "GameError", <<>>)
        ELSE
        LET paid == [g EXCEPT !.players[idx].balance = @ - tile.build_cost]
            built == IF tile_idx \in DOMAIN paid.properties
                     THEN [paid EXCEPT !.properties[tile_idx].houses = @ + 1]
                     ELSE paid
        IN  Saved(built,
                  <<[type |-> "BuildingBuilt", tile_idx |-> tile_idx,
                     player_id |-> player_id,
                     houses |-> current_houses + 1]>>,
                  [ZeroFlow EXCEPT !.bank_paid = tile.build_cost])

\* GameEngine::mortgage_property
mortgage_property(g, player_id, tile_idx) ==
    LET tile == get_tile(tile_idx)
        idx == PlayerIdx(g, player_id)
    IN  IF tile_idx \notin DOMAIN g.properties
        THEN Failed(g, "GameError", <<>>)
        ELSE IF g.properties[tile_idx].owner # player_id
        THEN Failed(g, "GameError", <<>>)
        ELSE IF g.properties[tile_idx].is_mortgaged
        THEN Failed(g, "GameError", <<>>)
        ELSE IF g.properties[tile_idx].houses > 0
        THEN Failed(g, "GameError", <<>>)
        ELSE IF idx = 0 THEN Failed(g, "GameError", <<>>)
        ELSE Saved([g EXCEPT
                      !.players[idx].balance = @ + tile.mortgage_value,
                      !.properties[tile_idx].is_mortgaged = TRUE],
                   <<[type |-> "PropertyMortgaged", tile_idx |-> tile_idx,
                      player_id |-> player_id]>>,
                   [ZeroFlow EXCEPT !.bank_received = tile.mortgage_value])

\* The f32 nearest to 1.1 is F32ElevenTenths / 2^F32Fraction (bits
\* 0x3F8CCCCD), a little more than 1.1.
F32Fraction == 23

RECURSIVE Pow2(_)
Pow2(n) == IF n = 0 THEN 1 ELSE 2 * Pow2(n - 1)

\* The bits of n above the 24 an f32 significand holds.
RECURSIVE ExcessBits(_)
ExcessBits(n) == IF n < Pow2(F32Fraction + 1) THEN 0
                 ELSE 1 + ExcessBits(n \div 2)

\* The f32 nearest to n / 2^F32Fraction (ties to even), as its numerator.
RoundF32(n) ==
    LET k == ExcessBits(n)
        unit == Pow2(k)
        q == n \div unit
        r == n % unit
    IN  IF k = 0 THEN n
        ELSE IF 2 * r > unit \/ (2 * r = unit /\ q % 2 = 1)
        THEN (q + 1) * unit
        ELSE q * unit

\* `(tile.mortgage_value as f32 * 1.1) as i32`: the f32 product of the
\* (exactly represented) mortgage value and the f32 1.1, cut toward zero.
MutUnmortgageCostRoundsUp(tile) == (tile.mortgage_value * 11 + 9) \div 10

unmortgage_cost(tile) ==
    RoundF32(tile.mortgage_value * F32ElevenTenths) \div Pow2(F32Fraction)

\* GameEngine::unmortgage_property
unmortgage_property(g, player_id, tile_idx) ==
    LET tile == get_tile(tile_idx)
        idx == PlayerIdx(g, player_id)
        cost == unmortgage_cost(tile)
    IN  IF tile_idx \notin DOMAIN g.properties
        THEN Failed(g, "GameError", <<>>)
        ELSE IF g.properties[tile_idx].owner # player_id
        THEN Failed(g, "GameError", <<>>)
        ELSE IF ~g.properties[tile_idx].is_mortgaged
        THEN Failed(g, "GameError", <<>>)
        ELSE IF idx = 0 THEN Failed(g, "GameError", <<>>)
        ELSE IF g.players[idx].balance < cost
        THEN Failed(g, "GameError", <<>>)
        ELSE Saved([g EXCEPT
                      !.players[idx].balance = @ - cost,
                      !.properties[tile_idx].is_mortgaged = FALSE],
                   <<[type |-> "PropertyUnmortgaged", tile_idx |-> tile_idx,
                      player_id |-> player_id]>>,
                   [ZeroFlow EXCEPT !.bank_paid = cost])

-----------------------------------------------------------------------------
(* Bankruptcy handler (bankruptcy.rs).                                     *)

\* handle_bankruptcy resetting the debtor's titles whoever the creditor is.
MutHandleBankruptcyResets(g, debtor_id, creditor_id) ==
    LET didx == PlayerIdx(g, debtor_id)
        marked == IF didx # 0
                  THEN [g EXCEPT !.players[didx].is_bankrupt = TRUE,
                                 !.players[didx].balance = 0,
                                 !.players[didx].get_out_cards = 0]
                  ELSE g
    IN  [game |-> [marked EXCEPT !.properties =
                     [idx \in DOMAIN @ |->
                        IF @[idx].owner = debtor_id
                        THEN DefaultPropertyState ELSE @[idx]]],
         flow |-> ZeroFlow]

\* BankruptcyHandler::handle_bankruptcy; creditor_id = NoId is a debt to the
\* bank. Returns the game and the balance the handler cleared.
handle_bankruptcy(g, debtor_id, creditor_id) ==
    LET didx == PlayerIdx(g, debtor_id)
        marked == IF didx # 0
                  THEN [g EXCEPT !.players[didx].is_bankrupt = TRUE,
                                 !.players[didx].balance = 0]
                  ELSE g
        debtor_properties == {idx \in DOMAIN g.properties :
                                 g.properties[idx].owner = debtor_id}
        cards == IF didx # 0 THEN g.players[didx].get_out_cards ELSE 0
        cidx == PlayerIdx(g, creditor_id)
        handed == [marked EXCEPT !.properties =
                     [idx \in DOMAIN @ |->
                        IF idx \in debtor_properties
                        THEN [@[idx] EXCEPT !.owner = creditor_id]
                        ELSE @[idx]]]
        moved == IF cards > 0
                 THEN LET taken == [handed EXCEPT
                                      !.players[didx].get_out_cards = 0]
                      IN  IF cidx # 0
                          THEN [taken EXCEPT
                                  !.players[cidx].get_out_cards = @ + cards]
                          ELSE taken
                 ELSE handed
        reset == [marked EXCEPT !.properties =
                    [idx \in DOMAIN @ |->
                       IF idx \in debtor_properties
                       THEN DefaultPropertyState
                       ELSE @[idx]]]
        returned == IF didx # 0
                    THEN [reset EXCEPT !.players[didx].get_out_cards = 0]
                    ELSE reset
    IN  [game |-> IF creditor_id # NoId THEN moved ELSE returned,
         flow |-> [ZeroFlow EXCEPT
                     !.wiped = IF didx # 0 THEN g.players[didx].balance
                               ELSE 0]]

-----------------------------------------------------------------------------
(* Orchestrator (engine.rs, handle_event).                                 *)

TurnGated == {"RollDice", "BuyProperty", "PassProperty", "EndTurn", "PayJail"}

\* is_current_player of handle_event.
MutIsCurrentPlayerAnyone(g, player_id) == g.turn.some

IsCurrentPlayer(g, player_id) ==
    IF g.turn.some THEN g.turn.player_id = player_id ELSE FALSE

\* The `if !is_current_player { return Err(Forbidden) }` of the arms of
\* handle_event, on the game handle_event loaded.
Gated(g, player_id, event) ==
    event.type \in TurnGated /\ ~IsCurrentPlayer(g, player_id)

\* The operation an arm of handle_event calls, on the game that operation
\* loads. event is [type, tile_idx, amount]; d1 and d2 are the values a roll
\* draws, checked the overflow checking of the build.
Dispatch(g, player_id, event, d1, d2, checked) ==
    CASE event.type = "RollDice" -> roll_dice(g, d1, d2)
      [] event.type = "BuyProperty" -> buy_property(g)
      [] event.type = "PassProperty" -> start_auction(g)
      [] event.type = "EndTurn" -> end_turn(g)
      [] event.type = "Bid" -> place_bid(g, player_id, event.amount)
      [] event.type = "PassBid" -> pass_bid(g, player_id, checked)
      [] event.type = "PayJail" -> pay_jail(g)
      [] event.type = "Build" -> build_house(g, player_id, event.tile_idx)
      [] event.type = "Mortgage" ->
            mortgage_property(g, player_id, event.tile_idx)
      [] event.type = "Unmortgage" ->
            unmortgage_property(g, player_id, event.tile_idx)
      [] event.type = "Chat" ->
            Unsaved(g, <<[type |-> "Chat", from |-> player_id]>>)
      \* UseCard, SellBuilding and the Trade events: logged, not handled
      [] OTHER -> Unsaved(g, <<>>)

\* GameEngine::handle_event when nothing else runs between its load and the
\* load of the operation it calls.
handle_event(g, player_id, event, d1, d2, checked) ==
    IF Gated(g, player_id, event)
    THEN Failed(g, "Forbidden", <<>>)
    ELSE Dispatch(g, player_id, event, d1, d2, checked)

-----------------------------------------------------------------------------
(* Plays that lead from a new room to the mid-game states the exploration  *)
(* also starts from. Each is computed by the operations above from         *)
(* create_room, so it is a state the program reaches with these events.    *)

Ev(type) == [type |-> type, tile_idx |-> 0, amount |-> 0]

EvTile(type, tile_idx) == [type |-> type, tile_idx |-> tile_idx, amount |-> 0]

EvBid(amount) == [type |-> "Bid", tile_idx |-> 0, amount |-> amount]

\* One scripted client event: the sender, the event and the dice it draws.
Play(player, type) == [player |-> player, event |-> Ev(type), d1 |-> 1, d2 |-> 1]

Roll(player, d1, d2) ==
    [player |-> player, event |-> Ev("RollDice"), d1 |-> d1, d2 |-> d2]

PlayTile(player, type, tile_idx) ==
    [player |-> player, event |-> EvTile(type, tile_idx), d1 |-> 1, d2 |-> 1]

\* The store and the ledger after one scripted event.
RunEvent(st, e) ==
    LET r == handle_event(st.game, e.player, e.event, e.d1, e.d2, TRUE)
    IN  [game |-> r.game, ledger |-> AddFlow(st.ledger, r.flow)]

\* The store and the ledger after the events of script, in order.
RunScript(st, script) ==
    LET after[i \in 0 .. Len(script)] ==
            IF i = 0 THEN st
            ELSE CHOOSE next \in {RunEvent(prev, script[i]) :
                                     prev \in {after[i - 1]}} : TRUE
    IN  after[Len(script)]

\* A room of two players, started with play order <<1, 2>>.
TwoPlayerStart(config) ==
    [game |-> start_game(join_room(create_room(config)).game,
                         [i \in 1 .. 1 |-> 1]).game,
     ledger |-> ZeroFlow]

\* Both players walk over tiles 10, 17, 20 and 22 to tile 33.
WalkTo33 ==
    << Roll(1, 4, 6), Play(1, "EndTurn"), Roll(2, 4, 6), Play(2, "EndTurn"),
       Roll(1, 3, 4), Play(1, "EndTurn"), Roll(2, 3, 4), Play(2, "EndTurn"),
       Roll(1, 1, 2), Play(1, "EndTurn"), Roll(2, 1, 2), Play(2, "EndTurn"),
       Roll(1, 1, 1), Play(1, "EndTurn"), Roll(1, 5, 6), Play(1, "EndTurn"),
       Roll(2, 1, 1), Play(2, "EndTurn"), Roll(2, 5, 6), Play(2, "EndTurn") >>

\* Player 1 buys tile 37, player 2 pays rent on it, player 1 rolls doubles
\* to tile 39, buys it and is about to roll again.
ScriptDarkBlue ==
    WalkTo33 \o
    << Roll(1, 1, 3), Play(1, "BuyProperty"), Play(1, "EndTurn"),
       Roll(2, 1, 3), Play(2, "EndTurn"),
       Roll(1, 1, 1), Play(1, "BuyProperty"), Play(1, "EndTurn") >>

\* Player 1 declines tile 37 and ends the turn with the auction open;
\* player 2 buys tiles 37 and 39 while it stays open.
ScriptOpenAuction ==
    WalkTo33 \o
    << Roll(1, 1, 3), Play(1, "PassProperty"), Play(1, "EndTurn"),
       Roll(2, 1, 3), Play(2, "BuyProperty"), Play(2, "EndTurn"),
       Roll(1, 1, 2), Play(1, "EndTurn"),
       Roll(2, 1, 1), Play(2, "BuyProperty") >>

JackpotConfig == [DefaultConfig EXCEPT !.free_parking_jackpot = TRUE]

\* With the jackpot on: both players pay the tax of tile 4, player 1 rolls
\* doubles to tile 16, nobody bids for it, and player 1 is about to roll.
ScriptJackpot ==
    << Roll(1, 1, 3), Play(1, "EndTurn"), Roll(2, 1, 3), Play(2, "EndTurn"),
       Roll(1, 6, 6), Play(1, "PassProperty"), Play(2, "PassBid"),
       Play(1, "EndTurn") >>

MidGameDarkBlue == RunScript(TwoPlayerStart(DefaultConfig), ScriptDarkBlue)

MidGameOpenAuction ==
    RunScript(TwoPlayerStart(DefaultConfig), ScriptOpenAuction)

MidGameJackpot == RunScript(TwoPlayerStart(JackpotConfig), ScriptJackpot)

\* Player 1 buys utility 12 and railroad 15 while player 2 walks to tile 10
\* and is about to roll.
ScriptRentUtility ==
    << Roll(1, 3, 4), Play(1, "EndTurn"), Roll(2, 3, 4), Play(2, "EndTurn"),
       Roll(1, 2, 3), Play(1, "BuyProperty"), Play(1, "EndTurn"),
       Roll(2, 1, 2), Play(2, "EndTurn"),
       Roll(1, 1, 2), Play(1, "BuyProperty"), Play(1, "EndTurn") >>

\* Then player 1 buys railroad 25 and utility 28 while player 2 walks to
\* tile 22 and is about to roll.
ScriptRentRailroad ==
    << Roll(2, 3, 4), Play(2, "EndTurn"),
       Roll(1, 4, 6), Play(1, "BuyProperty"), Play(1, "EndTurn"),
       Roll(2, 2, 3), Play(2, "EndTurn"),
       Roll(1, 1, 2), Play(1, "BuyProperty"), Play(1, "EndTurn") >>

\* Then player 2 pays on railroad 25, player 1 walks to tile 33 and player
\* 2 is about to roll.
ScriptRentBothUtilities ==
    << Roll(2, 1, 2), Play(2, "EndTurn"), Roll(1, 2, 3), Play(1, "EndTurn") >>

\* Or player 1 rolls to tile 30 and goes to jail, and player 2 is about to
\* roll from railroad 25.
ScriptRentOwnerJailed ==
    << Roll(2, 1, 2), Play(2, "EndTurn"), Roll(1, 1, 1), Play(1, "EndTurn") >>

\* After ScriptRentBothUtilities both players walk on, player 1 round the
\* board to tile 10, three tiles before its own utility, and is about to
\* roll.
ScriptRentOwnTile ==
    << Roll(2, 3, 5), Play(2, "EndTurn"), Roll(1, 1, 2), Play(1, "EndTurn"),
       Roll(2, 1, 2), Play(2, "EndTurn"), Roll(1, 5, 6), Play(1, "EndTurn"),
       Roll(2, 1, 3), Play(2, "EndTurn"), Roll(1, 1, 2), Play(1, "EndTurn"),
       Roll(2, 3, 4), Play(2, "EndTurn") >>

CollectInJailConfig == [DefaultConfig EXCEPT !.collect_rent_in_jail = TRUE]

SingleRentConfig == [DefaultConfig EXCEPT !.double_rent_on_full_set = FALSE]

\* A play from the start of a two-player game: the room's configuration and
\* the events of the script.
PlayOf(config, script) == [config |-> config, script |-> script]

\* The plays the rents are explored after. In order: player 1 owns tiles 37
\* and 39 and is to roll (rent doubled, then single); player 2 is to roll
\* from tile 10 with player 1 owning utility 12 and railroad 15; from tile
\* 22 with player 1 owning 12, 15, 25 and 28; from railroad 25 with player 1
\* on tile 33; from railroad 25 with player 1 in jail (rent not collected,
\* then collected); player 1 is to roll from tile 10, before its own
\* utility.
RentPlays ==
    {PlayOf(DefaultConfig, ScriptDarkBlue),
     PlayOf(SingleRentConfig, ScriptDarkBlue),
     PlayOf(DefaultConfig, ScriptRentUtility),
     PlayOf(DefaultConfig, ScriptRentUtility \o ScriptRentRailroad),
     PlayOf(DefaultConfig, ScriptRentUtility \o ScriptRentRailroad
                               \o ScriptRentBothUtilities),
     PlayOf(DefaultConfig, ScriptRentUtility \o ScriptRentRailroad
                               \o ScriptRentOwnerJailed),
     PlayOf(CollectInJailConfig, ScriptRentUtility \o ScriptRentRailroad
                                     \o ScriptRentOwnerJailed),
     PlayOf(DefaultConfig, ScriptRentUtility \o ScriptRentRailroad
                               \o ScriptRentBothUtilities
                               \o ScriptRentOwnTile)}

\* After ScriptDarkBlue player 1 builds three houses on tile 39, mortgages
\* tile 37 and builds a fourth house, which leaves it $160.
ScriptPoorOwner ==
    << PlayTile(1, "Build", 39), PlayTile(1, "Build", 39),
       PlayTile(1, "Build", 39), PlayTile(1, "Mortgage", 37),
       PlayTile(1, "Build", 39) >>

MidGamePoorOwner ==
    RunScript(TwoPlayerStart(DefaultConfig), ScriptDarkBlue \o ScriptPoorOwner)

\* Player 1 buys tiles 3 and 1 on two laps of the board and builds four
\* houses on tile 1, leaving tile 3 bare.
ScriptHotel ==
    << Roll(1, 1, 2), Play(1, "BuyProperty"), Play(1, "EndTurn"),
       Roll(2, 4, 6), Play(2, "EndTurn"),
       Roll(1, 5, 6), Play(1, "BuyProperty"), Play(1, "EndTurn"),
       Roll(2, 3, 4), Play(2, "EndTurn"),
       Roll(1, 5, 6), Play(1, "BuyProperty"), Play(1, "EndTurn"),
       Roll(2, 1, 2), Play(2, "EndTurn"),
       Roll(1, 5, 6), Play(1, "EndTurn"),
       Roll(2, 1, 2), Play(2, "BuyProperty"), Play(2, "EndTurn"),
       Roll(1, 2, 3), Play(1, "BuyProperty"), Play(1, "EndTurn"),
       Roll(2, 2, 3), Play(2, "BuyProperty"), Play(2, "EndTurn"),
       PlayTile(1, "Build", 1), PlayTile(1, "Build", 1),
       PlayTile(1, "Build", 1), PlayTile(1, "Build", 1) >>

MidGameHotel == RunScript(TwoPlayerStart(DefaultConfig), ScriptHotel)

\* The states the rents are explored from.
RentStates ==
    {RunScript(TwoPlayerStart(play.config), play.script) : play \in RentPlays}

\* A room of four players, started with play order <<1, 2, 3, 4>>.
FourPlayerStart ==
    [game |-> start_game(
                 join_room(join_room(join_room(
                     create_room(DefaultConfig)).game).game).game,
                 [i \in 1 .. 3 |-> i]).game,
     ledger |-> ZeroFlow]

\* Player 1 lands on tile 3 and declines it.
ScriptFourDeclined == << Roll(1, 1, 2), Play(1, "PassProperty") >>

\* Player 1 lands on tile 3 and declines it; player 2 bids 50.
ScriptFourAuction ==
    ScriptFourDeclined \o
    << [player |-> 2, event |-> EvBid(50), d1 |-> 1, d2 |-> 1] >>

MidGameFourDeclined == RunScript(FourPlayerStart, ScriptFourDeclined)

MidGameFourAuction == RunScript(FourPlayerStart, ScriptFourAuction)

NewRoom ==
    [game |-> create_room([DefaultConfig EXCEPT !.max_players = MaxPlayers]),
     ledger |-> ZeroFlow]

InitialStates ==
    {NewRoom, MidGameDarkBlue, MidGameOpenAuction, MidGameJackpot}

-----------------------------------------------------------------------------
(* The hub (ws/hub.rs): per room id the Vec of connections, each the       *)
(* player's id and the sending half tx of an unbounded channel. A channel  *)
(* is its queue and whether its receiving half is gone (closed). A room    *)
(* without entry in the HashMap is the empty sequence: join creates the    *)
(* entry with its first connection and leave removes an emptied one.       *)

\* The room ids hub calls name.
Rooms == {"r1", "r2"}

\* Hub::new
HubNew == [r \in Rooms |-> <<>>]

\* mpsc::unbounded_channel(): the channels with a new one added; its sending
\* half is the new length.
NewChannel(cs) == Append(cs, [queue |-> <<>>, closed |-> FALSE])

\* room.retain(|c| c.player_id != player_id)
Retain(room, player_id) ==
    SelectSeq(room, LAMBDA c : c.player_id # player_id)

\* Hub::join
MutHubJoinKeepsOld(h, room_id, player_id, tx) ==
    [h EXCEPT ![room_id] = Append(@, [player_id |-> player_id, tx |-> tx])]

hub_join(h, room_id, player_id, tx) ==
    [h EXCEPT ![room_id] =
        Append(Retain(@, player_id), [player_id |-> player_id, tx |-> tx])]

\* Hub::leave
hub_leave(h, room_id, player_id) ==
    [h EXCEPT ![room_id] = Retain(@, player_id)]

\* `let _ = conn.tx.send(event)`: an Err for a closed channel is dropped.
tx_send(cs, tx, event) ==
    IF cs[tx].closed THEN cs
    ELSE [cs EXCEPT ![tx].queue = Append(@, event)]

\* The loop of Hub::broadcast over the connections of a room.
RECURSIVE MutSendUntilClosed(_, _, _)
MutSendUntilClosed(cs, room, event) ==
    IF room = <<>> THEN cs
    ELSE IF cs[Head(room).tx].closed THEN cs
    ELSE MutSendUntilClosed(tx_send(cs, Head(room).tx, event),
                            Tail(room), event)

RECURSIVE SendAll(_, _, _)
SendAll(cs, room, event) ==
    IF room = <<>> THEN cs
    ELSE SendAll(tx_send(cs, Head(room).tx, event), Tail(room), event)

\* Hub::broadcast: the channels afterwards.
hub_broadcast(h, cs, room_id, event) == SendAll(cs, h[room_id], event)

\* Hub::send_to: the channels afterwards.
hub_send_to(h, cs, room_id, player_id, event) ==
    LET found == {i \in DOMAIN h[room_id] :
                     h[room_id][i].player_id = player_id}
    IN  IF found = {} THEN cs
        ELSE LET first == CHOOSE i \in found : \A j \in found : i <= j
             IN  tx_send(cs, h[room_id][first].tx, event)

-----------------------------------------------------------------------------
(* The state machine: the store's value for the room (game), and of the    *)
(* last operation its result, its kind and sender (lastOp) and the events  *)
(* it broadcast (bcast). ledger sums the money the operations moved to and *)
(* from the bank; steps counts what the bounds limit.                      *)

NoOp == [type |-> "None", player |-> NoId]

NoHubOp ==
    [op |-> "none", room |-> "r1", player |-> NoId, event |-> "none",
     replaced |-> FALSE]

\* A hub without connections.
HubIdle == hub = HubNew /\ chans = <<>> /\ hubOp = NoHubOp

\* No socket is open and no action is between its load and its save.
ServerIdle == socks = <<>> /\ workers = <<>>

Init ==
    /\ \E st \in InitialStates : game = st.game /\ ledger = st.ledger
    /\ result = "None"
    /\ lastOp = NoOp
    /\ bcast = <<>>
    /\ steps = [ops |-> 0, bankruptcies |-> 0]
    /\ HubIdle
    /\ ServerIdle

\* The variables after an operation that returned value.
Return(type, player, value) ==
    \E r \in {value} :
        /\ r.game # game => steps.ops < MaxSteps
        /\ game' = r.game
        /\ result' = r.res
        /\ lastOp' = [type |-> type, player |-> player]
        /\ bcast' = r.ev
        /\ ledger' = AddFlow(ledger, r.flow)
        /\ steps' = IF r.game # game
                    THEN [steps EXCEPT !.ops = @ + 1] ELSE steps
        /\ UNCHANGED <<hubVars, serverVars>>

\* The ids client events arrive with.
Senders == PlayerIds(game)

DieFaces == 1 .. MaxDie

\* The tiles BUILD, MORTGAGE and UNMORTGAGE events name.
TileArgs == {0, 1, 3, 37, 39}

\* The amounts BID events carry.
BidAmounts == {50, 100, 2000}

JoinRoom == Return("JoinRoom", NoId, join_room(game))

AddBot == Return("AddBot", NoId, add_bot(game))

StartGame ==
    \E js \in ShuffleDraws(Len(game.players)) :
        Return("StartGame", NoId, start_game(game, js))

\* A client event without payload, handled by handle_event.
ClientEvent(p, type) ==
    Return(type, p, handle_event(game, p, Ev(type), 1, 1, TRUE))

RollDice ==
    \E p \in Senders, d1 \in DieFaces, d2 \in DieFaces :
        Return("RollDice", p, handle_event(game, p, Ev("RollDice"), d1, d2, TRUE))

BuyProperty == \E p \in Senders : ClientEvent(p, "BuyProperty")

PassProperty == \E p \in Senders : ClientEvent(p, "PassProperty")

EndTurn == \E p \in Senders : ClientEvent(p, "EndTurn")

PayJail == \E p \in Senders : ClientEvent(p, "PayJail")

Bid ==
    \E p \in Senders, amount \in BidAmounts :
        Return("Bid", p, handle_event(game, p, EvBid(amount), 1, 1, TRUE))

PassBid ==
    \E p \in Senders, checked \in BOOLEAN :
        Return("PassBid", p, handle_event(game, p, Ev("PassBid"), 1, 1, checked))

Build ==
    \E p \in Senders, t \in TileArgs :
        Return("Build", p, handle_event(game, p, EvTile("Build", t), 1, 1, TRUE))

Mortgage ==
    \E p \in Senders, t \in TileArgs :
        Return("Mortgage", p,
               handle_event(game, p, EvTile("Mortgage", t), 1, 1, TRUE))

Unmortgage ==
    \E p \in Senders, t \in TileArgs :
        Return("Unmortgage", p,
               handle_event(game, p, EvTile("Unmortgage", t), 1, 1, TRUE))

\* A caller of the bankruptcy handler: it loads the game, runs the handler
\* for a debtor and a creditor (NoId: the bank) and saves.
Bankruptcy ==
    \E debtor \in Senders, creditor \in Senders \cup {NoId} :
        /\ game.phase = "Playing"
        /\ debtor # creditor
        /\ steps.bankruptcies < MaxBankruptcies
        /\ steps.ops < MaxSteps
        /\ LET r == handle_bankruptcy(game, debtor, creditor)
           IN  /\ game' = r.game
               /\ ledger' = AddFlow(ledger, r.flow)
        /\ result' = "Ok"
        /\ lastOp' = [type |-> "Bankruptcy", player |-> debtor]
        /\ bcast' = <<>>
        /\ steps' = [ops |-> steps.ops + 1,
                     bankruptcies |-> steps.bankruptcies + 1]
        /\ UNCHANGED <<hubVars, serverVars>>

Next ==
    \/ JoinRoom
    \/ AddBot
    \/ StartGame
    \/ RollDice
    \/ BuyProperty
    \/ PassProperty
    \/ EndTurn
    \/ PayJail
    \/ Bid
    \/ PassBid
    \/ Build
    \/ Mortgage
    \/ Unmortgage
    \/ Bankruptcy

Spec == Init /\ [][Next]_vars

\* The four-player auction, explored on its own.
InitFourAuction ==
    /\ \E st \in {MidGameFourDeclined, MidGameFourAuction} :
          game = st.game /\ ledger = st.ledger
    /\ result = "None"
    /\ lastOp = NoOp
    /\ bcast = <<>>
    /\ steps = [ops |-> 0, bankruptcies |-> 0]
    /\ HubIdle
    /\ ServerIdle

SpecFourAuction == InitFourAuction /\ [][Next]_vars

\* Games in which a roll lands on a tile another player owns.
InitRent ==
    /\ \E st \in RentStates : game = st.game /\ ledger = st.ledger
    /\ result = "None"
    /\ lastOp = NoOp
    /\ bcast = <<>>
    /\ steps = [ops |-> 0, bankruptcies |-> 0]
    /\ HubIdle
    /\ ServerIdle

SpecRent == InitRent /\ [][Next]_vars

\* Player 2 walks on from railroad 25 over tiles 28, 33 and 36 while player 1
\* fails its jail roll; each pair of turns leaves player 1 to roll in jail.
ScriptJailRound == << Roll(2, 1, 2), Play(2, "EndTurn") >>

ScriptJailFailed ==
    << Roll(1, 1, 2), Play(1, "EndTurn"), Roll(2, 2, 3), Play(2, "EndTurn"),
       Roll(1, 1, 2), Play(1, "EndTurn"), Roll(2, 1, 2), Play(2, "EndTurn") >>

\* The plays the jail is explored after. In order: player 1 is to roll from
\* tile 28, two tiles before tile 30; player 1 is to roll in jail with no
\* failed roll; player 1 is to roll in jail after two failed rolls.
JailPlays ==
    {PlayOf(DefaultConfig, ScriptRentUtility \o ScriptRentRailroad
                               \o ScriptJailRound),
     PlayOf(DefaultConfig, ScriptRentUtility \o ScriptRentRailroad
                               \o ScriptRentOwnerJailed \o ScriptJailRound),
     PlayOf(DefaultConfig, ScriptRentUtility \o ScriptRentRailroad
                               \o ScriptRentOwnerJailed \o ScriptJailRound
                               \o ScriptJailFailed)}

JailStates ==
    {RunScript(TwoPlayerStart(play.config), play.script) : play \in JailPlays}

\* Games in which the turn's player is in jail or about to be sent there.
InitJail ==
    /\ \E st \in JailStates : game = st.game /\ ledger = st.ledger
    /\ result = "None"
    /\ lastOp = NoOp
    /\ bcast = <<>>
    /\ steps = [ops |-> 0, bankruptcies |-> 0]
    /\ HubIdle
    /\ ServerIdle

SpecJail == InitJail /\ [][Next]_vars

\* After ScriptHotel player 1 lands on tile 6 and declines it, then bids
\* 1000 of a balance of 1020 in the auction that opens.
ScriptBidder ==
    ScriptHotel \o
    << Roll(1, 2, 3), Play(1, "PassProperty"),
       [player |-> 1, event |-> EvBid(1000), d1 |-> 1, d2 |-> 1] >>

MidGameBidder == RunScript(TwoPlayerStart(DefaultConfig), ScriptBidder)

\* An open auction whose highest bidder owns a colour group.
InitBidder ==
    /\ game = MidGameBidder.game
    /\ ledger = MidGameBidder.ledger
    /\ result = "None"
    /\ lastOp = NoOp
    /\ bcast = <<>>
    /\ steps = [ops |-> 0, bankruptcies |-> 0]
    /\ HubIdle
    /\ ServerIdle

\* The events of players while the auction is open.
NextBidder ==
    \/ BuyProperty
    \/ PayJail
    \/ Bid
    \/ PassBid
    \/ Build
    \/ Mortgage
    \/ Unmortgage

SpecBidder == InitBidder /\ [][NextBidder]_vars

\* The player_id of a connection that belongs to no player of the room: the
\* handler takes any Uuid from the path (ws/mod.rs).
Outsider == 9

\* A PASS_BID event on the connection of the outsider.
PassBidOutsider ==
    Return("PassBid", Outsider,
           handle_event(game, Outsider, Ev("PassBid"), 1, 1, TRUE))

\* The events of an auction among four players, with the outsider's.
NextOutsider ==
    \/ Bid
    \/ PassBid
    \/ PassBidOutsider

SpecOutsider == InitFourAuction /\ [][NextOutsider]_vars

\* Games of an owner of tiles 37 and 39, with the operations on titles.
InitTitles ==
    /\ \E st \in {MidGameDarkBlue, MidGamePoorOwner, MidGameHotel} :
          game = st.game /\ ledger = st.ledger
    /\ result = "None"
    /\ lastOp = NoOp
    /\ bcast = <<>>
    /\ steps = [ops |-> 0, bankruptcies |-> 0]
    /\ HubIdle
    /\ ServerIdle

NextTitles ==
    \/ Build
    \/ Mortgage
    \/ Unmortgage
    \/ RollDice
    \/ EndTurn

SpecTitles == InitTitles /\ [][NextTitles]_vars

\* The starting_cash values the created rooms are configured with.
StartingCashChoices == {DefaultStartingCash, 1000}

\* The rooms create_room stores, for each max_players and starting_cash a
\* client may send.
CreatedRooms ==
    {create_room([DefaultConfig EXCEPT !.max_players = n,
                                       !.starting_cash = cash]) :
        n \in 0 .. MaxPlayers, cash \in StartingCashChoices}

InitLobby ==
    /\ game \in CreatedRooms
    /\ ledger = ZeroFlow
    /\ result = "None"
    /\ lastOp = NoOp
    /\ bcast = <<>>
    /\ steps = [ops |-> 0, bankruptcies |-> 0]
    /\ HubIdle
    /\ ServerIdle

SpecLobby == InitLobby /\ [][Next]_vars

-----------------------------------------------------------------------------
(* The hub on its own: calls of join (each with the channel of a new       *)
(* connection), leave, broadcast and send_to in any order, and receiving   *)
(* halves that go away.                                                     *)

\* The player ids hub calls name.
HubPlayers == 1 .. 2

\* The events sent through the hub.
HubEvents == {"TurnChanged", "Chat"}

\* No channel is full: a further event may be sent.
QueuesOpen == \A tx \in DOMAIN chans : Len(chans[tx].queue) < MaxQueue

InitHub ==
    /\ game = NewRoom.game
    /\ ledger = NewRoom.ledger
    /\ result = "None"
    /\ lastOp = NoOp
    /\ bcast = <<>>
    /\ steps = [ops |-> 0, bankruptcies |-> 0]
    /\ HubIdle
    /\ ServerIdle

\* handle_socket creates a channel and registers its sending half.
HubJoin ==
    \E room_id \in Rooms, player_id \in HubPlayers :
        /\ Len(chans) < MaxChannels
        /\ chans' = NewChannel(chans)
        /\ hub' = hub_join(hub, room_id, player_id, Len(chans) + 1)
        /\ hubOp' = [op |-> "join", room |-> room_id, player |-> player_id,
                     event |-> "none",
                     replaced |-> \E i \in DOMAIN hub[room_id] :
                                     hub[room_id][i].player_id = player_id]
        /\ UNCHANGED <<gameVars, serverVars>>

HubLeave ==
    \E room_id \in Rooms, player_id \in HubPlayers :
        /\ hub' = hub_leave(hub, room_id, player_id)
        /\ hubOp' = [op |-> "leave", room |-> room_id, player |-> player_id,
                     event |-> "none", replaced |-> FALSE]
        /\ UNCHANGED <<gameVars, chans, serverVars>>

HubBroadcast ==
    \E room_id \in Rooms, event \in HubEvents :
        /\ QueuesOpen
        /\ chans' = hub_broadcast(hub, chans, room_id, event)
        /\ hubOp' = [op |-> "broadcast", room |-> room_id, player |-> NoId,
                     event |-> event, replaced |-> FALSE]
        /\ UNCHANGED <<gameVars, hub, serverVars>>

HubSendTo ==
    \E room_id \in Rooms, player_id \in HubPlayers, event \in HubEvents :
        /\ QueuesOpen
        /\ chans' = hub_send_to(hub, chans, room_id, player_id, event)
        /\ hubOp' = [op |-> "send_to", room |-> room_id,
                     player |-> player_id, event |-> event,
                     replaced |-> FALSE]
        /\ UNCHANGED <<gameVars, hub, serverVars>>

\* The receiving half of a channel is dropped (its forwarding task ended).
CloseSink ==
    \E tx \in DOMAIN chans :
        /\ ~chans[tx].closed
        /\ chans' = [chans EXCEPT ![tx].closed = TRUE]
        /\ hubOp' = [op |-> "close", room |-> "r1", player |-> NoId,
                     event |-> "none", replaced |-> FALSE]
        /\ UNCHANGED <<gameVars, hub, serverVars>>

NextHub ==
    \/ HubJoin
    \/ HubLeave
    \/ HubBroadcast
    \/ HubSendTo
    \/ CloseSink

SpecHub == InitHub /\ [][NextHub]_vars

-----------------------------------------------------------------------------
(* The server: handle_socket tasks (ws/hub.rs) running next to the actions *)
(* of the engine. Every `.await` of a task is a point where the others may *)
(* run, so a connection is a process with a position (pc) and an action is *)
(* a load of the stored game followed, later, by its save and broadcasts.  *)

\* The room whose game is in the store; the other rooms have none.
GameRoom == "r1"

\* The client events the concurrent actions are drawn from: the owner of
\* tiles 37 and 39, whose turn it is, mortgages, builds or rolls.
ServerActions ==
    { [player |-> 1, event |-> EvTile("Mortgage", 39), d1 |-> 1, d2 |-> 1],
      [player |-> 1, event |-> EvTile("Build", 37), d1 |-> 1, d2 |-> 1],
      Roll(1, 1, 2) }

\* GameEngine::get_game: Some(game) for the room with a stored game.
get_game(store, room_id) == IF room_id = GameRoom THEN <<store>> ELSE <<>>

\* GameEngine::save_game: SET of the room's key. The value the key held
\* (stored) and the value the saver had loaded are not compared.
MutSaveGameCompareAndSet(stored, loaded, g) ==
    IF stored = loaded THEN g ELSE stored

save_game(stored, loaded, g) == g

\* The GAME_STATE frame handle_socket writes on the socket itself.
GameStateFrame(g) == [type |-> "GAME_STATE", game |-> g]

\* The positions of handle_socket at which its forwarding task runs: it is
\* spawned after the GAME_STATE frame has been written.
MutCanForwardOnceJoined == {"load", "send", "forward"}

CanForward == {"forward"}

\* hub.broadcast of each event of events, in order.
RECURSIVE BroadcastAll(_, _, _, _)
BroadcastAll(h, cs, room_id, events) ==
    IF events = <<>> THEN cs
    ELSE BroadcastAll(h, hub_broadcast(h, cs, room_id, Head(events)),
                      room_id, Tail(events))

InitServer ==
    /\ game = MidGameDarkBlue.game
    /\ ledger = MidGameDarkBlue.ledger
    /\ result = "None"
    /\ lastOp = NoOp
    /\ bcast = <<>>
    /\ steps = [ops |-> 0, bankruptcies |-> 0]
    /\ HubIdle
    /\ ServerIdle

\* handle_socket up to the end of its hub.write(): the channel is created
\* and its sending half registered.
SockConnect ==
    \E room_id \in Rooms, player_id \in HubPlayers :
        /\ Len(socks) < MaxSockets
        /\ chans' = NewChannel(chans)
        /\ hub' = hub_join(hub, room_id, player_id, Len(chans) + 1)
        /\ socks' = Append(socks,
                           [room |-> room_id, player_id |-> player_id,
                            tx |-> Len(chans) + 1, pc |-> "load",
                            loaded |-> <<>>, frames |-> <<>>, waiting |-> 0])
        /\ UNCHANGED <<gameVars, hubOp, workers>>

\* `GameEngine::get_game(&redis, &room_id).await`
SockLoad ==
    \E s \in DOMAIN socks :
        /\ socks[s].pc = "load"
        /\ socks' = [socks EXCEPT
                       ![s].loaded = get_game(game, socks[s].room),
                       ![s].pc = "send"]
        /\ UNCHANGED <<gameVars, hubVars, workers>>

\* `if let Ok(Some(game)) = .. { sender.send(..).await }`, after which the
\* forwarding and the receiving task are spawned. waiting records how many
\* events the channel held by then.
SockSendState ==
    \E s \in DOMAIN socks :
        /\ socks[s].pc = "send"
        /\ socks' = [socks EXCEPT
                       ![s].frames =
                           IF socks[s].loaded # <<>>
                           THEN Append(@, GameStateFrame(socks[s].loaded[1]))
                           ELSE @,
                       ![s].waiting = Len(chans[socks[s].tx].queue),
                       ![s].pc = "forward"]
        /\ UNCHANGED <<gameVars, hubVars, workers>>

\* One turn of the forwarding task: `rx.recv()` then `sender.send(..)`.
SockForward ==
    \E s \in DOMAIN socks :
        /\ socks[s].pc \in CanForward
        /\ chans[socks[s].tx].queue # <<>>
        /\ socks' = [socks EXCEPT
                       ![s].frames = Append(@, Head(chans[socks[s].tx].queue))]
        /\ chans' = [chans EXCEPT ![socks[s].tx].queue = Tail(@)]
        /\ UNCHANGED <<gameVars, hub, hubOp, workers>>

\* `tokio::select!` returns: the client went away or the forwarding task
\* ended.
SockClose ==
    \E s \in DOMAIN socks :
        /\ socks[s].pc = "forward"
        /\ socks' = [socks EXCEPT ![s].pc = "leave"]
        /\ UNCHANGED <<gameVars, hubVars, workers>>

\* `hub.write().await.leave(&room_id, &player_id)`
SockLeave ==
    \E s \in DOMAIN socks :
        /\ socks[s].pc = "leave"
        /\ hub' = hub_leave(hub, socks[s].room, socks[s].player_id)
        /\ socks' = [socks EXCEPT ![s].pc = "done"]
        /\ UNCHANGED <<gameVars, chans, hubOp, workers>>

\* A worker that has not reached the save of its operation.
NewWorker(a, pc, res) ==
    [action |-> a, pc |-> pc, local |-> <<>>, loadedAt |-> 0, res |-> res,
     saved |-> FALSE, savedAt |-> 0, stored |-> <<>>, ev |-> <<>>]

\* handle_event loads the game and checks the turn: a gated event of
\* another player ends here with Forbidden.
WorkGate ==
    \E a \in ServerActions :
        /\ Len(workers) < MaxWorkers
        /\ workers' = Append(workers,
                             IF Gated(game, a.player, a.event)
                             THEN NewWorker(a, "done", "Forbidden")
                             ELSE NewWorker(a, "gated", "None"))
        /\ UNCHANGED <<gameVars, hubVars, socks>>

\* The operation loads the stored game. loadedAt is the number of saves
\* before the load.
WorkLoad ==
    \E w \in DOMAIN workers :
        /\ workers[w].pc = "gated"
        /\ workers' = [workers EXCEPT ![w].pc = "loaded",
                                       ![w].local = get_game(game, GameRoom),
                                       ![w].loadedAt = steps.ops]
        /\ UNCHANGED <<gameVars, hubVars, socks>>

\* The operation works on its local copy, saves it and broadcasts its
\* events. savedAt is the number of saves including this one, stored the
\* game the operation saved.
WorkSave ==
    \E w \in DOMAIN workers :
        /\ workers[w].pc = "loaded"
        /\ \E r \in {Dispatch(workers[w].local[1], workers[w].action.player,
                              workers[w].action.event,
                              workers[w].action.d1, workers[w].action.d2,
                              TRUE)} :
              /\ game' = IF r.saved
                         THEN save_game(game, workers[w].local[1], r.game)
                         ELSE game
              /\ result' = r.res
              /\ lastOp' = [type |-> workers[w].action.event.type,
                            player |-> workers[w].action.player]
              /\ bcast' = bcast \o r.ev
              /\ steps' = IF r.saved
                          THEN [steps EXCEPT !.ops = @ + 1] ELSE steps
              /\ chans' = BroadcastAll(hub, chans, GameRoom, r.ev)
              /\ workers' = [workers EXCEPT
                               ![w].pc = "done",
                               ![w].res = r.res,
                               ![w].saved = r.saved,
                               ![w].savedAt = steps'.ops,
                               ![w].stored = IF r.saved THEN <<r.game>>
                                             ELSE <<>>,
                               ![w].ev = r.ev]
        /\ UNCHANGED <<ledger, hub, hubOp, socks>>

NextServer ==
    \/ SockConnect
    \/ SockLoad
    \/ SockSendState
    \/ SockForward
    \/ SockClose
    \/ SockLeave
    \/ WorkGate
    \/ WorkLoad
    \/ WorkSave

SpecServer == InitServer /\ [][NextServer]_vars

\* The actions of the engine on one room, without connections.
NextStore ==
    \/ WorkGate
    \/ WorkLoad
    \/ WorkSave

SpecStore == InitServer /\ [][NextStore]_vars

\* The turn-gated client events sent at once: the turn's player 1 ends the
\* turn or rolls, and so does player 2.
TurnActions ==
    {Play(1, "EndTurn"), Roll(1, 1, 2), Roll(1, 2, 2),
     Play(2, "EndTurn"), Roll(2, 1, 2)}

\* handle_event's load and turn check for one of the turn-gated events.
TurnGate ==
    \E a \in TurnActions :
        /\ Len(workers) < MaxWorkers
        /\ workers' = Append(workers,
                             IF Gated(game, a.player, a.event)
                             THEN NewWorker(a, "done", "Forbidden")
                             ELSE NewWorker(a, "gated", "None"))
        /\ UNCHANGED <<gameVars, hubVars, socks>>

\* Concurrent turn-gated events on one room.
NextTurns ==
    \/ TurnGate
    \/ WorkLoad
    \/ WorkSave

SpecTurns == InitServer /\ [][NextTurns]_vars

-----------------------------------------------------------------------------
(* The bankruptcy handler on its own. No operation of the engine hands out *)
(* a Get Out of Jail card, so the games it is applied to are mid-game      *)
(* states with the card counts drawn from 0 .. MaxCards.                   *)

\* The plays whose end states the handler is applied to.
BankruptPlays ==
    { PlayOf(DefaultConfig, ScriptDarkBlue),
      PlayOf(DefaultConfig, ScriptDarkBlue \o ScriptPoorOwner),
      PlayOf(DefaultConfig, ScriptHotel),
      PlayOf(DefaultConfig, ScriptBidder),
      PlayOf(DefaultConfig, ScriptOpenAuction),
      PlayOf(DefaultConfig, ScriptRentUtility \o ScriptRentRailroad) }

BankruptStates ==
    {RunScript(TwoPlayerStart(play.config), play.script) :
        play \in BankruptPlays}

\* g with cards[i] Get Out of Jail cards in the hand of its i-th player.
WithCards(g, cards) ==
    [g EXCEPT !.players =
        [i \in DOMAIN @ |-> [@[i] EXCEPT !.get_out_cards = cards[i]]]]

InitBankrupt ==
    /\ \E st \in BankruptStates :
          \E cards \in [1 .. Len(st.game.players) -> 0 .. MaxCards] :
              game = WithCards(st.game, cards) /\ ledger = st.ledger
    /\ result = "None"
    /\ lastOp = NoOp
    /\ bcast = <<>>
    /\ steps = [ops |-> 0, bankruptcies |-> 0]
    /\ HubIdle
    /\ ServerIdle

SpecBankrupt == InitBankrupt /\ [][Bankruptcy]_vars

-----------------------------------------------------------------------------
(* The bot's decisions (bot/decision.rs): pure functions of the game, the  *)
(* bot's id and a tile. A u32 is held as two 16-bit limbs <<hi, lo>> where *)
(* its value may pass 2^31.                                                *)

\* BotAI::get_priorities
get_priorities ==
    << [group |-> "Orange", priority |-> 5],
       [group |-> "Red", priority |-> 5],
       [group |-> "Yellow", priority |-> 4],
       [group |-> "Railroad", priority |-> 4],
       [group |-> "Green", priority |-> 3],
       [group |-> "Pink", priority |-> 3],
       [group |-> "LightBlue", priority |-> 2],
       [group |-> "DarkBlue", priority |-> 2],
       [group |-> "Brown", priority |-> 2],
       [group |-> "Utility", priority |-> 1] >>

\* ColorGroup::property_count
property_count(group) ==
    CASE group \in {"Brown", "DarkBlue"} -> 2
      [] group = "Railroad" -> 4
      [] group = "Utility" -> 2
      [] OTHER -> 3

\* `.find(|p| p.group == group).map(|p| p.priority).unwrap_or(1)`
PriorityOf(group) ==
    LET found == {k \in DOMAIN get_priorities : get_priorities[k].group = group}
    IN  IF found = {} THEN 1
        ELSE get_priorities[CHOOSE k \in found : \A j \in found : k <= j].priority

\* The match of should_buy on (priority, owned_in_group).
max_percent(priority, owned_in_group, group_size) ==
    LET near == owned_in_group >= group_size - 1
    IN  CASE priority = 5 -> IF near THEN 80 ELSE 60
          [] priority = 4 -> IF near THEN 70 ELSE 50
          [] priority = 3 -> IF near THEN 60 ELSE 40
          [] OTHER -> IF near THEN 50 ELSE 30

Limb == Pow2(16)

\* `balance as u32`: the i32 reinterpreted modulo 2^32, as limbs.
AsU32(n) ==
    IF n >= 0 THEN << n \div Limb, n % Limb >>
    ELSE LET w == (n + 2147483647) + 1
         IN  << Limb \div 2 + w \div Limb, w % Limb >>

\* u * factor in u32 arithmetic: the wrapped product and whether the exact
\* one passes u32::MAX.
MulU32(u, factor) ==
    LET low == u[2] * factor
        high == u[1] * factor + low \div Limb
    IN  [value |-> << high % Limb, low % Limb >>, overflow |-> high >= Limb]

\* u / divisor, for a quotient below 2^31.
DivU32(u, divisor) ==
    (u[1] \div divisor) * Limb + ((u[1] % divisor) * Limb + u[2]) \div divisor

\* BotAI::should_buy. `bot.balance as u32 * max_percent` panics on overflow
\* when the build checks it (checked) and wraps otherwise.
should_buy(g, bot_id, tile_idx, checked) ==
    LET tile == get_tile(tile_idx)
        group == tile.group
        owned_in_group ==
            Cardinality({idx \in DOMAIN g.properties :
                            /\ g.properties[idx].owner = bot_id
                            /\ get_tile(idx).group = group})
        pct == max_percent(PriorityOf(group), owned_in_group,
                           property_count(group))
        product == MulU32(AsU32(get_player(g, bot_id).balance), pct)
        max_spend == DivU32(product.value, 100)
    IN  IF ~HasPlayer(g, bot_id) THEN [res |-> "Ok", value |-> FALSE]
        ELSE IF tile_idx \notin TileIdx THEN [res |-> "Ok", value |-> FALSE]
        ELSE IF group = NoGroup THEN [res |-> "Ok", value |-> FALSE]
        ELSE IF product.overflow /\ checked
        THEN [res |-> "Panic", value |-> FALSE]
        ELSE [res |-> "Ok", value |-> tile.price <= max_spend]

\* The elements of a set of numbers in ascending order.
RECURSIVE Ascending(_)
Ascending(S) ==
    IF S = {} THEN <<>>
    ELSE LET least == CHOOSE m \in S : \A n \in S : m <= n
         IN  <<least>> \o Ascending(S \ {least})

\* The group_tiles of get_build_targets: the Property tiles of the group in
\* board order.
PropertiesOf(group) ==
    Ascending({idx \in TileIdx : /\ get_tile(idx).group = group
                                 /\ get_tile(idx).tile_type = "Property"})

\* The least of a non-empty set of house counts; 0 for the empty one.
MinHouses(S) == IF S = {} THEN 0 ELSE CHOOSE m \in S : \A n \in S : m <= n

\* The loop of get_build_targets from the k-th priority on. `group_tiles[0]`
\* panics for a group without Property tiles.
RECURSIVE BuildTargetsFrom(_, _, _, _)
BuildTargetsFrom(g, bot_id, k, targets) ==
    IF k > Len(get_priorities) THEN [res |-> "Ok", targets |-> targets]
    ELSE
    LET group_tiles == PropertiesOf(get_priorities[k].group)
        owns_all == \A i \in DOMAIN group_tiles :
                        /\ group_tiles[i] \in DOMAIN g.properties
                        /\ g.properties[group_tiles[i]].owner = bot_id
                        /\ ~g.properties[group_tiles[i]].is_mortgaged
        min_houses == MinHouses({g.properties[group_tiles[i]].houses :
                                    i \in {j \in DOMAIN group_tiles :
                                              group_tiles[j] \in DOMAIN g.properties}})
        holders == {i \in DOMAIN group_tiles :
                       /\ group_tiles[i] \in DOMAIN g.properties
                       /\ g.properties[group_tiles[i]].houses = min_houses}
    IN  IF ~owns_all THEN BuildTargetsFrom(g, bot_id, k + 1, targets)
        ELSE IF group_tiles = <<>> THEN [res |-> "Panic", targets |-> targets]
        ELSE IF get_player(g, bot_id).balance < get_tile(group_tiles[1]).build_cost
        THEN BuildTargetsFrom(g, bot_id, k + 1, targets)
        ELSE IF min_houses >= MaxHouses
        THEN BuildTargetsFrom(g, bot_id, k + 1, targets)
        ELSE IF holders = {} THEN BuildTargetsFrom(g, bot_id, k + 1, targets)
        ELSE BuildTargetsFrom(
                 g, bot_id, k + 1,
                 Append(targets,
                        group_tiles[CHOOSE i \in holders :
                                        \A j \in holders : i <= j]))

\* BotAI::get_build_targets
get_build_targets(g, bot_id) ==
    IF ~HasPlayer(g, bot_id) THEN [res |-> "Ok", targets |-> <<>>]
    ELSE BuildTargetsFrom(g, bot_id, 1, <<>>)

\* The balances of the bot the decisions are taken with.
BotBalances ==
    {-2147483647, -30, -1, 0, 1, 199, 200, 1500, 53687092, 2147483647}

\* The tiles should_buy is asked about: one without a group, a railroad, a
\* utility and tiles of three colour groups.
BotTiles == {0, 1, 5, 12, 19, 39}

\* The ids taken for the bot's: the players and one that is no player.
BotIds == PlayerIds(game) \cup {Outsider}

\* g with balance as the balance of its i-th player.
WithBalance(g, i, balance) == [g EXCEPT !.players[i].balance = balance]

InitBot ==
    /\ \E st \in BankruptStates, balance \in BotBalances :
          game = WithBalance(st.game, 1, balance) /\ ledger = st.ledger
    /\ result = "None"
    /\ lastOp = NoOp
    /\ bcast = <<>>
    /\ steps = [ops |-> 0, bankruptcies |-> 0]
    /\ HubIdle
    /\ ServerIdle

\* A call of get_build_targets: bcast holds the targets it returned.
BotBuildTargets ==
    \E bot_id \in BotIds :
        \E r \in {get_build_targets(game, bot_id)} :
            /\ result' = r.res
            /\ bcast' = r.targets
            /\ lastOp' = [type |-> "GetBuildTargets", player |-> bot_id]
            /\ UNCHANGED <<game, ledger, steps, hubVars, serverVars>>

\* A call of should_buy: bcast holds the tile asked about.
BotShouldBuy ==
    \E bot_id \in BotIds, tile_idx \in BotTiles, checked \in BOOLEAN :
        \E r \in {should_buy(game, bot_id, tile_idx, checked)} :
            /\ result' = IF r.res = "Panic" THEN "Panic"
                         ELSE IF r.value THEN "True" ELSE "False"
            /\ bcast' = <<tile_idx>>
            /\ lastOp' = [type |-> "ShouldBuy", player |-> bot_id]
            /\ UNCHANGED <<game, ledger, steps, hubVars, serverVars>>

NextBot ==
    \/ BotBuildTargets
    \/ BotShouldBuy

SpecBot == InitBot /\ [][NextBot]_vars

-----------------------------------------------------------------------------
(* The broadcasts of concurrent actions. Each handle_event runs in the     *)
(* task of its connection on the multi-threaded runtime (main.rs); every   *)
(* hub.broadcast of an action is made under a hub.read() of its own, which *)
(* other readers share, and its loop sends to one connection at a time.    *)
(* A task of workers here is [ev, next, cursor]: the events of the action, *)
(* the index of the one being broadcast and the connection the loop is at  *)
(* (0 while the task holds no guard).                                      *)

\* The client events the broadcasting actions are drawn from.
CastActions ==
    { Roll(1, 1, 2), Roll(1, 1, 1), Play(2, "Chat"),
      PlayTile(1, "Build", 39) }

\* What a channel carries for event k of the task: the event and who
\* emitted it.
CastFrame(task, k, event) == [task |-> task, k |-> k, event |-> event]

\* No task holds a read guard of the hub: hub.write() can be acquired.
NoReader == \A w \in DOMAIN workers : workers[w].cursor = 0

\* handle_event up to the first broadcast: the action runs on the stored
\* game and its events wait to be broadcast.
CastStart ==
    \E a \in CastActions :
        /\ Len(workers) < MaxWorkers
        /\ \E r \in {handle_event(game, a.player, a.event, a.d1, a.d2, TRUE)} :
              /\ r.ev # <<>>
              /\ game' = r.game
              /\ result' = r.res
              /\ lastOp' = [type |-> a.event.type, player |-> a.player]
              /\ bcast' = bcast \o r.ev
              /\ ledger' = AddFlow(ledger, r.flow)
              /\ steps' = IF r.saved
                          THEN [steps EXCEPT !.ops = @ + 1] ELSE steps
              /\ workers' = Append(workers,
                                   [ev |-> r.ev, next |-> 1, cursor |-> 0])
        /\ UNCHANGED <<hubVars, socks>>

\* One turn of the loop of Hub::broadcast (at its first turn the task
\* acquires hub.read(), after its last it drops the guard).
CastSend ==
    \E w \in DOMAIN workers :
        LET task == workers[w]
            room == hub[GameRoom]
            at == IF task.cursor = 0 THEN 1 ELSE task.cursor
        IN  /\ task.next <= Len(task.ev)
            /\ chans' = IF at <= Len(room)
                        THEN tx_send(chans, room[at].tx,
                                     CastFrame(w, task.next, task.ev[task.next]))
                        ELSE chans
            /\ workers' = IF at >= Len(room)
                          THEN [workers EXCEPT ![w].next = @ + 1,
                                               ![w].cursor = 0]
                          ELSE [workers EXCEPT ![w].cursor = at + 1]
            /\ UNCHANGED <<gameVars, hub, hubOp, socks>>

\* handle_socket registers the channel of a new connection under
\* hub.write().
CastJoin ==
    \E player_id \in HubPlayers :
        /\ NoReader
        /\ Len(chans) < MaxChannels
        /\ chans' = NewChannel(chans)
        /\ hub' = hub_join(hub, GameRoom, player_id, Len(chans) + 1)
        /\ hubOp' = [op |-> "join", room |-> GameRoom, player |-> player_id,
                     event |-> "none",
                     replaced |-> \E i \in DOMAIN hub[GameRoom] :
                                     hub[GameRoom][i].player_id = player_id]
        /\ UNCHANGED <<gameVars, serverVars>>

NextCast ==
    \/ CastStart
    \/ CastSend
    \/ CastJoin

SpecCast == InitServer /\ [][NextCast]_vars

-----------------------------------------------------------------------------
(* Properties.                                                             *)

RECURSIVE SumOf(_, _)
SumOf(f, n) == IF n = 0 THEN 0 ELSE f[n] + SumOf(f, n - 1)

\* The money the players of g hold.
TotalMoney(g) ==
    SumOf([i \in 1 .. Len(g.players) |-> g.players[i].balance], Len(g.players))

\* The balance of the player with this id.
BalanceOf(g, id) == get_player(g, id).balance

\* The last operation was accepted and is of this type.
Accepted(type) == result = "Ok" /\ lastOp.type = type

\* The events of this type in a broadcast.
EventsOf(events, type) ==
    {events[i] : i \in {j \in DOMAIN events : events[j].type = type}}

\* C1: a ROLL_DICE, BUY_PROPERTY, PASS_PROPERTY, END_TURN or PAY_JAIL event
\* from a sender who is not the turn's player (or when there is no turn)
\* returns Forbidden, leaves the stored game as it was and broadcasts nothing.
C1_NotCurrentPlayerForbidden ==
    [][(/\ lastOp'.type \in TurnGated
        /\ (~game.turn.some \/ lastOp'.player # game.turn.player_id))
       => (result' = "Forbidden" /\ game' = game /\ bcast' = <<>>)]_vars

\* A player who does not hold the turn of a running game sent ROLL_DICE.
C1_Witness ==
    /\ game.phase = "Playing"
    /\ game.turn.some
    /\ lastOp.type = "RollDice"
    /\ lastOp.player # game.turn.player_id
    /\ result = "Forbidden"

\* C2: an engine operation that returns an error leaves the stored game
\* exactly as it was before the call.
C2_ErrorKeepsState ==
    [][(result' \notin {"Ok", "None"} /\ lastOp'.type # "Bankruptcy")
       => game' = game]_vars

\* A bid above the bidder's balance was refused while an auction is open.
C2_Witness ==
    /\ lastOp.type = "Bid"
    /\ result = "GameError"
    /\ game.auction.some
    /\ BalanceOf(game, lastOp.player) > game.auction.current_bid

\* C3: once the game has started, turn_order holds every player's id exactly
\* once and the turn's player is one of them.
C3_TurnOrderPermutation ==
    game.phase # "Lobby" =>
        /\ Len(game.turn_order) = Len(game.players)
        /\ \A id \in PlayerIds(game) :
              Cardinality({i \in DOMAIN game.turn_order :
                              game.turn_order[i] = id}) = 1
        /\ game.turn.some
        /\ \E i \in DOMAIN game.turn_order :
              game.turn_order[i] = game.turn.player_id

\* A started game of three players whose shuffle moved every id.
C3_Witness ==
    /\ game.phase = "Playing"
    /\ Len(game.players) = 3
    /\ game.turn_order = <<3, 1, 2>>
    /\ game.turn.player_id = 3

\* C4: whenever the game has a turn, the turn's player is not bankrupt, or
\* the game is over.
C4_TurnPlayerNotBankrupt ==
    game.turn.some =>
        \/ game.phase = "GameOver"
        \/ /\ HasPlayer(game, game.turn.player_id)
           /\ ~get_player(game, game.turn.player_id).is_bankrupt

\* C5: no property has houses and is mortgaged at the same time.
C5_NoHousesOnMortgaged ==
    \A t \in DOMAIN game.properties :
        ~(game.properties[t].houses > 0 /\ game.properties[t].is_mortgaged)

\* C6: every tile with houses has an owner, who owns every tile of the
\* tile's color group.
C6_HousesOnlyOnFullSet ==
    \A t \in DOMAIN game.properties :
        game.properties[t].houses > 0 =>
            /\ game.properties[t].owner # NoId
            /\ player_has_full_set(game, game.properties[t].owner,
                                   get_tile(t).group)

\* The money the players were given at start_game.
StartingMoney == game.config.starting_cash * Len(game.players)

RolledDoubles ==
    /\ lastOp'.type = "RollDice"
    /\ result' = "Ok"
    /\ \E e \in EventsOf(bcast', "DiceResult") : e.is_doubles

\* C8: the third doubles in a row of one turn do not move the roller by the
\* dice: the roller is at tile 10 and in jail, the turn has doubles_count 0,
\* can_roll_again false and phase TurnEnd, and the roller's balance is what
\* it was before the roll.
C8_ThirdDoublesJails ==
    [][(RolledDoubles /\ game.turn.doubles_count = MaxDoubles - 1)
       => LET id == game.turn.player_id
          IN  /\ get_player(game', id).position = JailPosition
              /\ get_player(game', id).in_jail
              /\ game'.turn.player_id = id
              /\ game'.turn.doubles_count = 0
              /\ ~game'.turn.can_roll_again
              /\ game'.turn.phase = "TurnEnd"
              /\ BalanceOf(game', id) = BalanceOf(game, id)
              /\ EventsOf(bcast', "PlayerMoved") = {}]_vars

\* A roll of doubles sent its roller to jail while the turn went on.
C8_Witness ==
    /\ Accepted("RollDice")
    /\ \E e \in EventsOf(bcast, "DiceResult") : e.is_doubles
    /\ EventsOf(bcast, "PlayerJailed") # {}
    /\ game.turn.doubles_count = 0
    /\ get_player(game, lastOp.player).in_jail
    /\ get_player(game, lastOp.player).position = JailPosition

\* What the roll of this step added to the players' total money, the
\* landing's tax, jackpot and jail fee left out: the credit for passing Go.
GoCredit ==
    (TotalMoney(game') - TotalMoney(game))
        + (ledger'.tax - ledger.tax)
        - (ledger'.jackpot - ledger.jackpot)
        + (ledger'.bank_paid - ledger.bank_paid)

\* The roll of this step moved its roller, as the event e tells.
Moved(e) ==
    /\ lastOp'.type = "RollDice"
    /\ result' = "Ok"
    /\ e \in EventsOf(bcast', "PlayerMoved")

\* C9: a roll that reaches the movement step moves the roller from old_pos
\* to new_pos = (old_pos + d1 + d2) mod 40 and credits exactly $200 when
\* new_pos < old_pos and old_pos # 0, and nothing otherwise.
C9_PassGoCredit ==
    [][\A e \in EventsOf(bcast', "PlayerMoved") :
          Moved(e) =>
            LET id == game.turn.player_id
                old_pos == get_player(game, id).position
                dice == game'.turn.dice
                new_pos == (old_pos + dice[1] + dice[2]) % 40
                wrapped == new_pos < old_pos /\ old_pos # 0
            IN  /\ e.from = old_pos
                /\ e.to = new_pos
                /\ e.passed_go = wrapped
                /\ GoCredit = (IF wrapped THEN 200 ELSE 0)
                /\ ledger'.go - ledger.go = GoCredit]_vars

\* A roll took its roller past tile 0 to a later tile and paid the award.
C9_Witness ==
    /\ Accepted("RollDice")
    /\ \E e \in EventsOf(bcast, "PlayerMoved") :
          e.passed_go /\ e.to > 0 /\ e.to < e.from
    /\ ledger.go >= GoSalary

\* C10 as stated: a roll that lands its roller exactly on tile 0 credits
\* nothing for passing Go.
C10_OnGoNotCreditedAsStated ==
    [][\A e \in EventsOf(bcast', "PlayerMoved") :
          (Moved(e) /\ e.to = 0) => GoCredit = 0]_vars

\* C10, amended: a roll that lands its roller exactly on tile 0 from another
\* tile counts as passing Go and credits the roller $200, once.
C10_OnGoCredited ==
    [][\A e \in EventsOf(bcast', "PlayerMoved") :
          (Moved(e) /\ e.to = 0) =>
             /\ e.from # 0
             /\ e.passed_go
             /\ GoCredit = GoSalary
             /\ BalanceOf(game', game.turn.player_id)
                  = BalanceOf(game, game.turn.player_id) + GoSalary]_vars

\* A roll landed its roller exactly on tile 0.
C10_Witness ==
    /\ Accepted("RollDice")
    /\ \E e \in EventsOf(bcast, "PlayerMoved") : e.to = 0 /\ e.from # 0
    /\ get_player(game, lastOp.player).position = 0

\* No player of g is bankrupt.
NoneBankrupt(g) == \A i \in 1 .. Len(g.players) : ~g.players[i].is_bankrupt

\* The auction of a four-player game after the turn's player A declined the
\* tile, B bid 50 and the players of passed passed, in this order.
FourPlayerAuction(passed) ==
    /\ Len(game.players) = 4
    /\ NoneBankrupt(game)
    /\ game.turn.some
    /\ game.turn.phase = "Auction"
    /\ game.auction.some
    /\ game.auction.current_bid = 50
    /\ game.auction.highest_bidder \notin {NoId, game.turn.player_id}
    /\ game.auction.passed_players = passed
    /\ \A i \in DOMAIN passed :
          passed[i] \notin {game.turn.player_id, game.auction.highest_bidder}

\* This step is an accepted PASS_BID of a player who had not passed.
NewPass ==
    /\ lastOp'.type = "PassBid"
    /\ result' = "Ok"
    /\ PositionOf(game.auction.passed_players, lastOp'.player) = 0

\* The auction of this step ended with its highest bidder B owning the tile
\* for the bid.
AuctionWonByBidder ==
    LET B == game.auction.highest_bidder
        tile == game.auction.tile_idx
    IN  /\ ~game'.auction.some
        /\ game'.properties[tile].owner = B
        /\ BalanceOf(game', B) = BalanceOf(game, B) - game.auction.current_bid
        /\ game'.turn.phase = "TurnEnd"

\* C11 as stated: in a four-player game without bankrupt players, after A
\* declined, B bid 50 and C passed, the auction ends on D's pass: B owns the
\* tile and has paid 50, the auction is cleared and the turn phase is
\* TurnEnd.
C11_EndsOnSecondPassAsStated ==
    [][\A C \in PlayerIds(game) :
          (/\ FourPlayerAuction(<<C>>)
           /\ NewPass
           /\ lastOp'.player \notin {game.turn.player_id,
                                     game.auction.highest_bidder})
          => AuctionWonByBidder]_vars

\* C11, amended: in that game the auction is still open after D's pass
\* (nothing is paid, the tile stays unowned, the turn phase stays Auction);
\* it ends on the third pass, by A or B: then B owns the tile and has paid
\* 50, the auction is cleared and the turn phase is TurnEnd.
C11_EndsOnThirdPass ==
    [][\A C \in PlayerIds(game) :
          /\ (/\ FourPlayerAuction(<<C>>)
              /\ NewPass
              /\ lastOp'.player \notin {game.turn.player_id,
                                        game.auction.highest_bidder})
             => /\ game'.auction =
                     [game.auction EXCEPT
                         !.passed_players = <<C, lastOp'.player>>]
                /\ game'.properties = game.properties
                /\ game'.players = game.players
                /\ game'.turn = game.turn
          /\ \A D \in PlayerIds(game) :
                (FourPlayerAuction(<<C, D>>) /\ NewPass)
                => AuctionWonByBidder]_vars

\* After A declined tile 3, B bid 50 and C, D and A passed, B owns the tile.
C11_Witness ==
    /\ Len(game.players) = 4
    /\ Accepted("PassBid")
    /\ lastOp.player = game.turn.player_id
    /\ ~game.auction.some
    /\ game.turn.phase = "TurnEnd"
    /\ game.properties[3].owner = 2
    /\ BalanceOf(game, 2) = DefaultStartingCash - 50
    /\ EventsOf(bcast, "AuctionEnd") # {}

\* passed_players once the sender of this step's PASS_BID is recorded.
PassedAfter ==
    IF PositionOf(game.auction.passed_players, lastOp'.player) = 0
    THEN Append(game.auction.passed_players, lastOp'.player)
    ELSE game.auction.passed_players

\* The auction of this step ended: it is removed, the turn phase is TurnEnd,
\* and a highest bidder, if any, paid the bid and owns the tile, while
\* nothing else changed hands.
AuctionEnded ==
    LET B == game.auction.highest_bidder
        tile == game.auction.tile_idx
        bidx == PlayerIdx(game, B)
    IN  /\ ~game'.auction.some
        /\ game'.turn = [game.turn EXCEPT !.phase = "TurnEnd"]
        /\ IF B # NoId
           THEN /\ game'.players =
                     [game.players EXCEPT
                         ![bidx].balance = @ - game.auction.current_bid]
                /\ game'.properties =
                     [game.properties EXCEPT ![tile].owner = B]
           ELSE /\ game'.players = game.players
                /\ game'.properties = game.properties

C13_BidNeedsOpenAuction ==
    [][(/\ lastOp'.type = "Bid"
        /\ \/ ~game.auction.some
           \/ PositionOf(game.auction.passed_players, lastOp'.player) # 0)
       => (/\ result' = "GameError"
           /\ game' = game
           /\ EventsOf(bcast', "BidPlaced") = {})]_vars

ConnectionsOf(room, player_id) ==
    {i \in DOMAIN room : room[i].player_id = player_id}

\* C15: every room of the hub holds at most one connection per player id.
C15_OneConnectionPerPlayer ==
    \A room_id \in Rooms, player_id \in HubPlayers :
        Cardinality(ConnectionsOf(hub[room_id], player_id)) <= 1

\* A join for a player already connected to the room replaced the earlier
\* connection: the room holds the new channel only.
C15_Witness ==
    /\ hubOp.op = "join"
    /\ hubOp.replaced
    /\ \E i \in DOMAIN hub[hubOp.room] :
          hub[hubOp.room][i] = [player_id |-> hubOp.player,
                                tx |-> Len(chans)]
    /\ Cardinality(ConnectionsOf(hub[hubOp.room], hubOp.player)) = 1

\* The sending halves registered in a room.
Registered(room) == {room[i].tx : i \in DOMAIN room}

\* The channels after event is sent once to each channel of txs that is not
\* closed, and to no other.
Delivered(txs, event) ==
    [tx \in DOMAIN chans |->
        IF tx \in txs /\ ~chans[tx].closed
        THEN [chans[tx] EXCEPT !.queue = Append(@, event)]
        ELSE chans[tx]]

\* C16: broadcast puts the event exactly once on the channel of every
\* connection registered in the room and on no other channel, skipping
\* closed channels; send_to puts it on the named player's channel only.
C16_BroadcastDelivery ==
    [][/\ hubOp'.op = "broadcast" =>
            chans' = Delivered(Registered(hub[hubOp'.room]), hubOp'.event)
       /\ hubOp'.op = "send_to" =>
            chans' = Delivered(
                        {hub[hubOp'.room][i].tx :
                            i \in ConnectionsOf(hub[hubOp'.room],
                                                hubOp'.player)},
                        hubOp'.event)]_vars

\* A broadcast reached an open channel of a room that also holds a closed
\* one, while a channel of the other room got nothing.
C16_Witness ==
    /\ hubOp.op = "broadcast"
    /\ \E i, j \in DOMAIN hub[hubOp.room] :
          /\ chans[hub[hubOp.room][i].tx].closed
          /\ i < j
          /\ ~chans[hub[hubOp.room][j].tx].closed
          /\ chans[hub[hubOp.room][j].tx].queue = <<hubOp.event>>
    /\ \E other \in Rooms \ {hubOp.room} :
          /\ hub[other] # <<>>
          /\ \A i \in DOMAIN hub[other] :
                chans[hub[other][i].tx].queue = <<>>

\* C17: the first frame a client receives is the GAME_STATE frame with the
\* game its connection loaded from the store, whatever was broadcast to its
\* room since it registered in the hub.
C17_GameStateFirst ==
    \A s \in DOMAIN socks :
        socks[s].frames # <<>> =>
            /\ socks[s].loaded # <<>>
            /\ Head(socks[s].frames) = GameStateFrame(socks[s].loaded[1])

\* A client whose channel held an event before its GAME_STATE frame was
\* written has received both, the GAME_STATE frame first.
C17_Witness ==
    \E s \in DOMAIN socks :
        /\ socks[s].waiting > 0
        /\ Len(socks[s].frames) >= 2
        /\ socks[s].frames[1].type = "GAME_STATE"
        /\ socks[s].frames[2].type # "GAME_STATE"

\* The workers whose operation was accepted and reached its save.
Savers == {w \in DOMAIN workers : workers[w].pc = "done" /\ workers[w].saved}

\* What the operation of worker w makes of the game g.
EffectOf(w, g) ==
    Dispatch(g, workers[w].action.player, workers[w].action.event,
             workers[w].action.d1, workers[w].action.d2, TRUE)

\* Every event the operation of worker w sent was broadcast.
Broadcasted(w) ==
    \A i \in DOMAIN workers[w].ev :
        \E j \in DOMAIN bcast : bcast[j] = workers[w].ev[i]

\* C18: the store is last-writer-wins. The stored game is what the latest
\* saver made of the game it had loaded; an operation that loads right after
\* a save works on the saved game (run one at a time, every accepted effect
\* is kept), while a save between the load and the save of the latest saver
\* is overwritten although its events were broadcast.
C18_LastWriterWins ==
    \A w \in Savers :
        (\A v \in Savers : workers[v].savedAt <= workers[w].savedAt) =>
            /\ game = EffectOf(w, workers[w].local[1]).game
            /\ \A v \in Savers \ {w} :
                  /\ Broadcasted(v)
                  /\ workers[w].loadedAt = workers[v].savedAt =>
                        workers[w].local = workers[v].stored

\* Two accepted operations loaded before either saved: the mortgage of tile
\* 39 was saved first and announced, the build on tile 37 saved last, and
\* the stored game shows tile 39 unmortgaged.
C18_Witness ==
    \E v, w \in Savers :
        /\ workers[v].loadedAt = 0 /\ workers[w].loadedAt = 0
        /\ workers[v].savedAt = 1 /\ workers[w].savedAt = 2
        /\ workers[v].action.event.type = "Mortgage"
        /\ workers[w].action.event.type = "Build"
        /\ workers[v].stored[1].properties[39].is_mortgaged
        /\ ~game.properties[39].is_mortgaged
        /\ game.properties[37].houses = 1
        /\ \E j \in DOMAIN bcast : bcast[j].type = "PropertyMortgaged"

\* C19: GameOver is terminal. Once the stored phase is GameOver no client
\* event changes the stored game (the bankruptcy handler is not a client
\* event), and a roll_dice outside phase Playing is refused.
C19_GameOverTerminal ==
    [][(game.phase = "GameOver" /\ lastOp'.type # "Bankruptcy") =>
          /\ game' = game
          /\ lastOp'.type = "RollDice" => result' # "Ok"]_vars

\* The ids of the players of g, in roster order.
Roster(g) == [i \in 1 .. Len(g.players) |-> g.players[i].id]

RosterWithinMax == Len(game.players) <= game.config.max_players

\* One call: join_room and add_bot are accepted only in the Lobby with room
\* left and refused with BadRequest otherwise, the roster only grows at its
\* end, and it stays as it is once the game has left the Lobby.
RosterStep ==
    LET open == game.phase = "Lobby"
                /\ Len(game.players) < game.config.max_players
    IN  /\ lastOp'.type \in {"JoinRoom", "AddBot"} =>
              IF open THEN result' = "Ok" ELSE result' = "BadRequest"
        /\ Len(game'.players) >= Len(game.players)
        /\ SubSeq(Roster(game'), 1, Len(game.players)) = Roster(game)
        /\ game.phase # "Lobby" => Roster(game') = Roster(game)

\* C20: join_room and add_bot succeed only in the Lobby with players.len <
\* max_players and return BadRequest otherwise; for every configured
\* max_players the roster never exceeds it, players are never removed and
\* the roster does not change after start_game.
C20_LobbyRoster == []RosterWithinMax /\ [][RosterStep]_vars

\* The state start_game leaves: Playing, every balance the configured
\* starting cash, and a fresh turn of the first player of the turn order.
Started(g) ==
    /\ g.phase = "Playing"
    /\ \A i \in 1 .. Len(g.players) :
          g.players[i].balance = g.config.starting_cash
    /\ g.turn_order # <<>>
    /\ g.turn = [some |-> TRUE, player_id |-> g.turn_order[1],
                 dice |-> <<>>, doubles_count |-> 0,
                 phase |-> "WaitingForRoll", can_roll_again |-> FALSE]

\* C21: start_game returns Ok exactly in the Lobby with at least two
\* players and BadRequest (state unchanged) otherwise; on success every
\* balance is config.starting_cash, the phase is Playing and the turn is a
\* fresh TurnState of turn_order[0].
C21_StartGame ==
    [][lastOp'.type = "StartGame" =>
          IF game.phase = "Lobby" /\ Len(game.players) >= 2
          THEN result' = "Ok" /\ Started(game')
          ELSE result' = "BadRequest" /\ game' = game]_vars

\* A started room whose starting cash is not the balance players are
\* created with, and a second start_game that was refused.
C21_Witness ==
    /\ lastOp.type = "StartGame"
    /\ result = "BadRequest"
    /\ game.phase = "Playing"
    /\ game.config.starting_cash # NewPlayerBalance
    /\ Started(game)

\* The railroads and the utilities of the board, and the rent of a railroad
\* by the number of railroads its owner holds.
Railroads == {5, 15, 25, 35}

Utilities == {12, 28}

RailroadRents == <<25, 50, 100, 200>>

\* How many of these tiles owner holds in g.
Holds(g, owner, tiles) ==
    Cardinality({t \in tiles : g.properties[t].owner = owner})

\* The rent due on the owned tile t of g to a roll with the sum rolled.
RentDue(g, t, rolled) ==
    LET tile == get_tile(t)
        state == g.properties[t]
        owner == state.owner
        whole_group ==
            \A u \in 0 .. (BoardSize - 1) :
                get_tile(u).group = tile.group => g.properties[u].owner = owner
    IN  IF state.is_mortgaged THEN 0
        ELSE IF get_player(g, owner).in_jail /\ ~g.config.collect_rent_in_jail
        THEN 0
        ELSE CASE tile.tile_type = "Property" ->
                    IF state.houses > 0 THEN tile.rent_schedule[state.houses]
                    ELSE IF whole_group /\ g.config.double_rent_on_full_set
                    THEN 2 * tile.rent_base
                    ELSE tile.rent_base
               [] tile.tile_type = "Railroad" ->
                    RailroadRents[Holds(g, owner, Railroads)]
               [] tile.tile_type = "Utility" ->
                    rolled * (IF Holds(g, owner, Utilities) = 2
                              THEN 10 ELSE 4)

\* C22: a roll that lands on a tile another player owns moves exactly the
\* rent due from the lander to the owner (nothing for a mortgaged tile or a
\* jailed owner without collect_rent_in_jail; base rent, doubled for a whole
\* color group, or the house schedule for a Property; 25, 50, 100, 200 by
\* railroads held; dice sum times 4 or 10 for a Utility); landing on one's
\* own tile moves nothing; nobody else's balance changes and the turn phase
\* becomes TurnEnd.
C22_RentPaid ==
    [][\A e \in EventsOf(bcast', "PlayerMoved") :
          (/\ Moved(e)
           /\ e.to \in DOMAIN game.properties
           /\ game.properties[e.to].owner # NoId)
          => LET lander == game.turn.player_id
                 owner == game.properties[e.to].owner
                 dice == game'.turn.dice
                 rent == IF owner = lander THEN 0
                         ELSE RentDue(game, e.to, dice[1] + dice[2])
                 salary == IF e.passed_go THEN GoSalary ELSE 0
                 fee == ledger'.bank_paid - ledger.bank_paid
             IN  /\ BalanceOf(game', lander) =
                        BalanceOf(game, lander) + salary - fee - rent
                 /\ owner # lander =>
                        BalanceOf(game', owner) = BalanceOf(game, owner) + rent
                 /\ \A id \in PlayerIds(game) \ {lander, owner} :
                        BalanceOf(game', id) = BalanceOf(game, id)
                 /\ game'.turn.phase = "TurnEnd"]_vars

\* A roll of 3 landed on a utility whose owner holds both: 30 moved from
\* the lander to the owner.
C22_Witness ==
    /\ Accepted("RollDice")
    /\ \E e \in EventsOf(bcast, "PlayerMoved") : e.from = 25 /\ e.to = 28
    /\ game.properties[12].owner = 1
    /\ game.properties[28].owner = 1
    /\ ~game.properties[28].is_mortgaged
    /\ ~get_player(game, 1).in_jail
    /\ BalanceOf(game, 1) = 880
    /\ BalanceOf(game, 2) = 1420

\* floor(mortgage_value * 11 / 10) for the tile t, mortgage_value being
\* floor(price / 2).
StatedUnmortgageCost(t) == (((get_tile(t).price \div 2) * 11) \div 10)

\* C23: an accepted mortgage of tile t by p finds t owned by p, unmortgaged
\* and without houses, sets the flag and credits floor(price / 2); an
\* accepted unmortgage finds t owned by p and mortgaged and p holding at
\* least floor(mortgage_value * 11 / 10), clears the flag and debits exactly
\* that; an unmortgage right after the mortgage restores the properties
\* and leaves p lower by the difference of the two amounts.
C23_MortgageRoundTrip ==
    [][/\ \A e \in EventsOf(bcast', "PropertyMortgaged") :
             (lastOp'.type = "Mortgage" /\ result' = "Ok") =>
                LET p == lastOp'.player
                    t == e.tile_idx
                    value == get_tile(t).price \div 2
                    back == unmortgage_property(game', p, t)
                IN  /\ e.player_id = p
                    /\ game.properties[t].owner = p
                    /\ ~game.properties[t].is_mortgaged
                    /\ game.properties[t].houses = 0
                    /\ game'.properties =
                          [game.properties EXCEPT ![t].is_mortgaged = TRUE]
                    /\ BalanceOf(game', p) = BalanceOf(game, p) + value
                    /\ back.res = "Ok" =>
                          /\ back.game.properties = game.properties
                          /\ BalanceOf(back.game, p) =
                                BalanceOf(game, p)
                                  - (StatedUnmortgageCost(t) - value)
       /\ \A e \in EventsOf(bcast', "PropertyUnmortgaged") :
             (lastOp'.type = "Unmortgage" /\ result' = "Ok") =>
                LET p == lastOp'.player
                    t == e.tile_idx
                IN  /\ e.player_id = p
                    /\ game.properties[t].owner = p
                    /\ game.properties[t].is_mortgaged
                    /\ BalanceOf(game, p) >= StatedUnmortgageCost(t)
                    /\ game'.properties =
                          [game.properties EXCEPT ![t].is_mortgaged = FALSE]
                    /\ BalanceOf(game', p) =
                          BalanceOf(game, p) - StatedUnmortgageCost(t)
       /\ (lastOp'.type \in {"Mortgage", "Unmortgage"} /\ result' = "Ok") =>
             bcast' # <<>>]_vars

\* Tile 37 (mortgage value 175, unmortgage cost 192) was mortgaged and then
\* unmortgaged by its owner, who is 17 poorer than before.
C23_Witness ==
    /\ Accepted("Unmortgage")
    /\ steps.ops = 2
    /\ ~game.properties[37].is_mortgaged
    /\ game.properties[37].owner = 1
    /\ BalanceOf(game, 1) = 785 - 17

\* The player of g with this id is in the game and not bankrupt.
IsActive(g, id) == HasPlayer(g, id) /\ ~get_player(g, id).is_bankrupt

\* The first non-bankrupt player after the turn's player in turn_order,
\* cyclically; NoId when there is none.
FollowingPlayer(g) ==
    LET order == g.turn_order
        n == Len(order)
        pos == PositionOf(order, g.turn.player_id)
        at(k) == order[((pos - 1 + k) % n) + 1]
        steps_on == {k \in 1 .. n : IsActive(g, at(k))}
    IN  IF steps_on = {} THEN NoId
        ELSE at(CHOOSE k \in steps_on : \A j \in steps_on : k <= j)

\* C24: an END_TURN of the turn's player without can_roll_again gives a
\* fresh turn to the next non-bankrupt player after the turn's player in
\* turn_order (cyclically), also when the turn's player is bankrupt; with
\* nobody left it fails and the turn stays.
C24_EndTurnNextPlayer ==
    [][(/\ lastOp'.type = "EndTurn"
        /\ game.turn.some
        /\ lastOp'.player = game.turn.player_id
        /\ ~game.turn.can_roll_again)
       => IF FollowingPlayer(game) = NoId
          THEN result' # "Ok" /\ game'.turn = game.turn
          ELSE /\ result' = "Ok"
               /\ game'.turn = NewTurnState(FollowingPlayer(game))]_vars

\* The turn phases in which the turn's player still has a roll, a buy
\* decision or an auction ahead.
PendingPhases == {"WaitingForRoll", "BuyDecision", "Auction"}

\* C25: the turn changes hands only from turn.phase = TurnEnd; an END_TURN
\* of the turn's player in WaitingForRoll, BuyDecision or Auction leaves
\* turn.player_id and turn.phase as they were.
C25_TurnPassesFromTurnEnd ==
    [][/\ (game.turn.some /\ game'.turn.some
            /\ game'.turn.player_id # game.turn.player_id)
           => game.turn.phase = "TurnEnd"
       /\ (/\ lastOp'.type = "EndTurn"
           /\ game.turn.some
           /\ lastOp'.player = game.turn.player_id
           /\ game.turn.phase \in PendingPhases)
           => /\ game'.turn.player_id = game.turn.player_id
              /\ game'.turn.phase = game.turn.phase]_vars

\* C26: in every stored game an auction is present exactly when
\* turn.phase = Auction, so no auction stays open across a change of the
\* turn's player.
C26_AuctionIffPhase ==
    game.auction.some <=> (game.turn.some /\ game.turn.phase = "Auction")

\* The client events that reach buy_property or end_auction.
PurchaseEvents == {"BuyProperty", "PlaceBid", "PassBid"}

\* C27: a purchase or the resolution of an auction never changes the owner
\* of a tile that already has one; both assign only unowned tiles.
C27_OwnerKept ==
    [][lastOp'.type \in PurchaseEvents
       => \A t \in DOMAIN game.properties :
             game.properties[t].owner # NoId
             => game'.properties[t].owner = game.properties[t].owner]_vars

\* Worker w ends its operation in this step with a save of the game.
Mutates(w) ==
    /\ w \in DOMAIN workers
    /\ workers[w].pc = "loaded"
    /\ workers'[w].pc = "done"
    /\ workers'[w].saved

\* C28: under every interleaving a turn-gated operation changes the game
\* only when its sender holds the turn in the state it loaded and changes:
\* the turn check and the mutation see the same state.
C28_GateAndMutationAgree ==
    [][\A w \in DOMAIN workers :
          (Mutates(w) /\ workers[w].action.event.type \in TurnGated)
          => IsCurrentPlayer(workers[w].local[1],
                             workers[w].action.player)]_vars

\* The positions of handle_socket before its tasks have ended.
OpenPositions == {"load", "send", "forward"}

\* Connection s is the latest one of its player in its room.
MostRecent(s) ==
    \A t \in DOMAIN socks :
        (socks[t].room = socks[s].room
         /\ socks[t].player_id = socks[s].player_id) => t <= s

\* The hub holds the sending half of connection s in its room.
HoldsSender(s) ==
    \E i \in DOMAIN hub[socks[s].room] :
        /\ hub[socks[s].room][i].player_id = socks[s].player_id
        /\ hub[socks[s].room][i].tx = socks[s].tx

\* C29: a player's most recent connection stays registered in the hub
\* while it is open; the leave of a replaced connection removes only that
\* connection.
C29_LatestConnectionRegistered ==
    \A s \in DOMAIN socks :
        (MostRecent(s) /\ socks[s].pc \in OpenPositions) => HoldsSender(s)

\* The step is an accepted event of this type sent by the turn's player.
TurnEvent(type) ==
    /\ lastOp'.type = type
    /\ result' = "Ok"
    /\ game.turn.some
    /\ lastOp'.player = game.turn.player_id

\* The roll of this step reached the movement step of roll_dice.
RollMoved == \E i \in DOMAIN bcast' : bcast'[i].type = "PlayerMoved"

\* The dice of this step's roll are doubles.
DiceAreDoubles == game'.turn.dice[1] = game'.turn.dice[2]

\* C30: with can_roll_again set, END_TURN keeps the turn's player and the
\* doubles counter, sets WaitingForRoll and clears the flag; a roll that
\* moves the player without jailing it counts its doubles on top of the
\* counter, and a roll leaves can_roll_again set exactly when it was
\* doubles, the player moved and is not in jail after landing.
C30_RollAgain ==
    [][/\ (/\ lastOp'.type = "EndTurn"
            /\ game.turn.some
            /\ lastOp'.player = game.turn.player_id
            /\ game.turn.can_roll_again)
           => /\ result' = "Ok"
              /\ game'.turn.player_id = game.turn.player_id
              /\ game'.turn.phase = "WaitingForRoll"
              /\ ~game'.turn.can_roll_again
              /\ game'.turn.doubles_count = game.turn.doubles_count
       /\ TurnEvent("RollDice")
           => /\ (/\ RollMoved
                   /\ ~get_player(game', game.turn.player_id).in_jail)
                  => game'.turn.doubles_count =
                       game.turn.doubles_count
                       + (IF DiceAreDoubles THEN 1 ELSE 0)
              /\ game'.turn.can_roll_again
                    <=> /\ DiceAreDoubles
                        /\ RollMoved
                        /\ ~get_player(game', game.turn.player_id).in_jail
      ]_vars

\* The turn's player rolled doubles, ended the turn with can_roll_again and
\* rolled doubles again: the counter stands at two or more and the flag is
\* set once more.
C30_Witness ==
    /\ lastOp.type = "RollDice"
    /\ result = "Ok"
    /\ game.turn.some
    /\ game.turn.doubles_count >= 2
    /\ game.turn.can_roll_again
    /\ lastOp.player = game.turn.player_id
    /\ steps.ops >= 2

\* The turn's player has already rolled in this turn: a fresh TurnState
\* has no dice.
RolledThisTurn == game.turn.some /\ game.turn.dice # <<>>

\* C31: a roll is accepted from a player who has already rolled in this
\* turn only when that previous roll was doubles and the turn counts one
\* or two doubles so far; so there are at most three rolls in a turn and
\* none after a failed jail roll or after being sent to jail in the turn.
C31_RollsPerTurn ==
    [][(TurnEvent("RollDice") /\ RolledThisTurn)
       => /\ game.turn.dice[1] = game.turn.dice[2]
          /\ game.turn.doubles_count \in 1 .. 2]_vars

\* Every jailed player of the stored game stands on the jail tile with at
\* most two failed jail rolls.
JailedAtJail ==
    \A i \in DOMAIN game.players :
        game.players[i].in_jail
        => /\ game.players[i].position = JailPosition
           /\ game.players[i].jail_turns <= MaxJailTurns - 1

\* An accepted roll of the turn's player who is in jail: before is the
\* player when the roll is made, after the player once it is stored.
JailRollStep(before, after) ==
    LET sum == game'.turn.dice[1] + game'.turn.dice[2]
        moved == /\ ~after.in_jail
                 /\ after.jail_turns = 0
                 /\ after.position = (JailPosition + sum) % BoardSize
                 /\ RollMoved
    IN  IF DiceAreDoubles
        THEN moved
        ELSE IF before.jail_turns + 1 >= MaxJailTurns
        THEN /\ moved
             /\ after.balance <= before.balance - JailFee
             /\ game.properties[after.position].owner = NoId
                => after.balance = before.balance - JailFee
        ELSE /\ after = [before EXCEPT !.jail_turns = @ + 1]
             /\ after.position = JailPosition
             /\ game'.turn.phase = "TurnEnd"
             /\ ~game'.turn.can_roll_again
             /\ ~RollMoved

\* C32: a jailed player who rolls doubles is freed and moves by the sum; on
\* another roll jail_turns grows by one, and at three the player pays $50,
\* is freed and moves, otherwise stays on tile 10 with the turn at TurnEnd
\* and no further roll; a jailed player is always on tile 10 with
\* jail_turns of at most 2.
C32_JailRoll ==
    /\ []JailedAtJail
    /\ [][(TurnEvent("RollDice")
           /\ get_player(game, game.turn.player_id).in_jail)
          => JailRollStep(get_player(game, game.turn.player_id),
                          get_player(game', game.turn.player_id))]_vars

\* The third failed jail roll: the jailed player rolled no doubles, paid
\* the $50 and left tile 10.
C32_Witness ==
    /\ steps.ops = 1
    /\ lastOp.type = "RollDice"
    /\ result = "Ok"
    /\ game.turn.dice[1] # game.turn.dice[2]
    /\ ledger.bank_paid >= JailFee
    /\ ~get_player(game, lastOp.player).in_jail
    /\ \E i \in DOMAIN bcast :
          bcast[i].type = "PlayerMoved" /\ bcast[i].from = JailPosition

\* The tile the turn's player of g stands on can be bought: the turn is at
\* BuyDecision, the tile is ownable and unowned and the balance covers its
\* price.
CanBuy(g) ==
    LET player == get_player(g, g.turn.player_id)
    IN  /\ g.turn.phase = "BuyDecision"
        /\ is_ownable_tile(player.position)
        /\ g.properties[player.position].owner = NoId
        /\ player.balance >= get_tile(player.position).price

\* The purchase of the tile under the turn's player of g gave h.
Bought(g, h) ==
    LET id == g.turn.player_id
        player == get_player(g, id)
        tile_idx == player.position
    IN  /\ get_player(h, id).balance = player.balance - get_tile(tile_idx).price
        /\ h.properties[tile_idx].owner = id
        /\ h.turn.phase = "TurnEnd"

\* The tile the roll of this step moved the turn's player to was ownable and
\* unowned before the roll.
LandedOnUnowned ==
    LET tile_idx == get_player(game', game.turn.player_id).position
    IN  /\ RollMoved
        /\ is_ownable_tile(tile_idx)
        /\ game.properties[tile_idx].owner = NoId

\* C33: BUY_PROPERTY of the turn's player succeeds exactly when the turn is
\* at BuyDecision on an ownable, unowned tile whose price the balance
\* covers; then the price is debited, the tile is the player's and the turn
\* is at TurnEnd; otherwise it is a GameError. A roll leaves the turn at
\* BuyDecision exactly when it landed on an unowned ownable tile, and at
\* TurnEnd otherwise.
C33_BuyProperty ==
    [][/\ (/\ lastOp'.type = "BuyProperty"
            /\ game.turn.some
            /\ lastOp'.player = game.turn.player_id)
           => IF CanBuy(game)
              THEN result' = "Ok" /\ Bought(game, game')
              ELSE result' = "GameError" /\ game' = game
       /\ TurnEvent("RollDice")
           => game'.turn.phase =
                 IF LandedOnUnowned THEN "BuyDecision" ELSE "TurnEnd"]_vars

\* The turn's player rolled onto an unowned tile and bought it.
C33_Witness ==
    /\ lastOp.type = "BuyProperty"
    /\ result = "Ok"
    /\ steps.ops >= 2
    /\ game.turn.phase = "TurnEnd"
    /\ game.properties[get_player(game, lastOp.player).position].owner
          = lastOp.player

\* The tile the step built on: the one BuildingBuilt names.
BuiltTile == bcast'[1].tile_idx

\* The house counts of the tiles of group that g titles.
GroupHouses(g, group) ==
    {g.properties[idx].houses : idx \in GroupTiles(group) \cap DOMAIN g.properties}

HousesInRange ==
    \A idx \in DOMAIN game.properties :
        game.properties[idx].houses \in 0 .. MaxHouses

\* The step is an accepted BUILD of sender p on tile t: the conditions it met
\* and what it changed.
BuildStep(p, t) ==
    LET tile == get_tile(t)
        before == get_player(game, p)
        after == get_player(game', p)
    IN  /\ tile.tile_type = "Property"
        /\ \A idx \in GroupTiles(tile.group) :
              idx \in DOMAIN game.properties /\ game.properties[idx].owner = p
        /\ game.properties[t].houses < MaxHouses
        /\ before.balance >= tile.build_cost
        /\ after.balance = before.balance - tile.build_cost
        /\ game'.properties[t].houses = game.properties[t].houses + 1
        /\ \A idx \in DOMAIN game.properties \ {t} :
              game'.properties[idx] = game.properties[idx]

\* C34: a BUILD is accepted only for a Property tile whose whole colour group
\* the sender owns, with fewer than five houses on it and a balance of at
\* least the build cost; it debits exactly the build cost and adds one house,
\* so every house count stays within 0 .. 5. The house counts of the other
\* tiles of the group are not looked at, whatever even_build_rule says.
C34_Build ==
    /\ []HousesInRange
    /\ [][(lastOp'.type = "Build" /\ result' = "Ok")
            => BuildStep(lastOp'.player, BuiltTile)]_vars

\* An accepted build under even_build_rule of the fifth house on a tile
\* whose group holds a tile without houses.
C34_Witness ==
    /\ lastOp.type = "Build"
    /\ result = "Ok"
    /\ game.config.even_build_rule
    /\ bcast[1].type = "BuildingBuilt"
    /\ game.properties[bcast[1].tile_idx].houses = MaxHouses
    /\ 0 \in GroupHouses(game, get_tile(bcast[1].tile_idx).group)

\* The operations in which a player chooses to spend: the purchase, the
\* build, the unmortgage, the jail fee paid on request, and the pass that
\* closes an auction and debits the winning bid.
SpendingEvents == {"BuyProperty", "Build", "Unmortgage", "PayJail", "PassBid"}

\* No player of a non-negative balance has a negative one after the step.
KeepsSolvent ==
    \A i \in DOMAIN game.players :
        (i \in DOMAIN game'.players /\ game.players[i].balance >= 0)
            => game'.players[i].balance >= 0

\* C35: an operation in which a player chooses to spend money (buy_property,
\* build, unmortgage, pay_jail, the debit of the winning bid of an auction)
\* leaves every balance that was non-negative before it non-negative.
C35_ChosenSpendingKeepsSolvent ==
    [][(lastOp'.type \in SpendingEvents /\ result' = "Ok") => KeepsSolvent]_vars

\* The non-bankrupt players of g that are on the auction's list of passes
\* once id is added to it.
ActivePassers(g, id) ==
    {q \in {g.auction.passed_players[i] :
                i \in DOMAIN g.auction.passed_players} \cup {id} :
        IsActive(g, q)}

\* The step closes the auction that was open.
AuctionCloses == game.auction.some /\ ~game'.auction.some

\* C36: an auction ends only after at least active_player_count - 1 distinct
\* non-bankrupt players of the game have passed; a PASS_BID of an id that is
\* not a non-bankrupt player of the room does not count toward the end.
C36_OnlyPlayersEndAuction ==
    [][(AuctionCloses /\ lastOp'.type = "PassBid")
        => Cardinality(ActivePassers(game, lastOp'.player))
               >= active_player_count(game) - 1]_vars

\* The frames that reached the sink of channel tx, in order.
Received(tx) == chans[tx].queue

\* The types of the events of a task, in the order it emits them.
TypesOf(ev) == [i \in DOMAIN ev |-> ev[i].type]

\* The events of a roll, as the engine orders them.
RollEventsInOrder(ev) ==
    LET types == TypesOf(ev)
    IN  /\ types[1] = "DiceResult"
        /\ ("PlayerMoved" \in {types[i] : i \in DOMAIN types})
              => \/ types = <<"DiceResult", "PlayerMoved", "GameState">>
                 \/ /\ types = <<"DiceResult", "PlayerFreed", "PlayerMoved",
                                  "GameState">>
                    /\ ev[1].is_doubles
        /\ ("PlayerJailed" \in {types[i] : i \in DOMAIN types})
              => types = <<"DiceResult", "PlayerJailed">>

\* Every sink holds the events of one action in the order of emission.
EmissionOrderKept ==
    \A tx \in DOMAIN chans :
        \A i, j \in DOMAIN Received(tx) :
            (i < j /\ Received(tx)[i].task = Received(tx)[j].task)
                => Received(tx)[i].k < Received(tx)[j].k

\* frame a stands before frame b in the sink of channel tx.
Before(tx, a, b) ==
    \E i, j \in DOMAIN Received(tx) :
        i < j /\ Received(tx)[i] = a /\ Received(tx)[j] = b

\* Two sinks that both received two events received them in one order.
SameRelativeOrder ==
    \A tx, ty \in DOMAIN chans :
        \A i, j \in DOMAIN Received(tx) :
            (i < j /\ Before(ty, Received(tx)[j], Received(tx)[i])) => FALSE

\* C37: the events of one action reach every sink in the order the engine
\* emits them (a roll that moves: DiceResult, PlayerFreed only after doubles
\* in jail, PlayerMoved, GameState; a third doubles: DiceResult, PlayerJailed
\* and nothing else), and any two events broadcast to a room are received in
\* the same relative order by every sink that receives both.
C37_EventOrder ==
    /\ \A w \in DOMAIN workers :
          workers[w].ev[1].type = "DiceResult"
              => RollEventsInOrder(workers[w].ev)
    /\ EmissionOrderKept
    /\ SameRelativeOrder

\* The ids of the players of g, in the order of the list.
PlayerList(g) == [i \in DOMAIN g.players |-> g.players[i].id]

\* h is g after the bankruptcy of debtor towards creditor (NoId: the bank).
BankruptcyEffects(g, debtor, creditor, h) ==
    /\ get_player(h, debtor).is_bankrupt
    /\ get_player(h, debtor).balance = 0
    /\ get_player(h, debtor).get_out_cards = 0
    /\ creditor # NoId
          => get_player(h, creditor) =
                [get_player(g, creditor) EXCEPT
                    !.get_out_cards = @ + get_player(g, debtor).get_out_cards]
    /\ DOMAIN h.properties = DOMAIN g.properties
    /\ \A idx \in DOMAIN g.properties :
          /\ h.properties[idx].owner # debtor
          /\ h.properties[idx] =
                IF g.properties[idx].owner # debtor THEN g.properties[idx]
                ELSE IF creditor # NoId
                THEN [g.properties[idx] EXCEPT !.owner = creditor]
                ELSE [owner |-> NoId, houses |-> 0, is_mortgaged |-> FALSE]
    /\ PlayerList(h) = PlayerList(g)
    /\ \A id \in PlayerIds(g) \ {debtor, creditor} :
          get_player(h, id) = get_player(g, id)
    /\ h.turn_order = g.turn_order

\* C38: handle_bankruptcy(debtor, creditor) marks the debtor bankrupt with
\* balance 0; with a creditor (another player) the debtor's tiles pass to the
\* creditor with houses and mortgage flag kept and the debtor's jail cards
\* are added to the creditor's; without one the tiles are reset to unowned,
\* no houses, unmortgaged and the cards discarded. The other tiles, the list
\* of players and turn_order stay, and no tile is the debtor's afterwards.
C38_HandleBankruptcy ==
    \A debtor \in PlayerIds(game) :
        \A creditor \in (PlayerIds(game) \cup {NoId}) \ {debtor} :
            BankruptcyEffects(game, debtor, creditor,
                              handle_bankruptcy(game, debtor, creditor).game)

\* Player 1 went bankrupt towards player 2, who now holds tile 39 with its
\* four houses, tile 37 still mortgaged, and the cards of both.
C38_Witness ==
    /\ lastOp = [type |-> "Bankruptcy", player |-> 1]
    /\ get_player(game, 1).is_bankrupt
    /\ get_player(game, 1).get_out_cards = 0
    /\ get_player(game, 2).get_out_cards = 2 * MaxCards
    /\ game.properties[39] = [owner |-> 2, houses |-> 4, is_mortgaged |-> FALSE]
    /\ game.properties[37] = [owner |-> 2, houses |-> 0, is_mortgaged |-> TRUE]

\* The position of group in the bot's list of priorities.
PriorityRank(group) ==
    CHOOSE k \in DOMAIN get_priorities : get_priorities[k].group = group

\* The bot owns every tile of the colour group unmortgaged, its balance
\* covers the build cost and the least house count of the group is below 5.
BuildableGroup(g, bot_id, group) ==
    /\ group \notin {"Railroad", "Utility", NoGroup}
    /\ \A idx \in GroupTiles(group) :
          /\ idx \in DOMAIN g.properties
          /\ g.properties[idx].owner = bot_id
          /\ ~g.properties[idx].is_mortgaged
          /\ get_player(g, bot_id).balance >= get_tile(idx).build_cost
    /\ \E idx \in GroupTiles(group) : g.properties[idx].houses < MaxHouses

\* targets names one tile of least house count for each buildable group, in
\* the order of the priorities, and nothing else.
RightTargets(g, bot_id, targets) ==
    /\ {get_tile(targets[i]).group : i \in DOMAIN targets}
          = {get_priorities[k].group : k \in
                {j \in DOMAIN get_priorities :
                    BuildableGroup(g, bot_id, get_priorities[j].group)}}
    /\ \A i, j \in DOMAIN targets :
          i < j => PriorityRank(get_tile(targets[i]).group)
                      < PriorityRank(get_tile(targets[j]).group)
    /\ \A i \in DOMAIN targets :
          \A idx \in GroupTiles(get_tile(targets[i]).group) :
              g.properties[targets[i]].houses <= g.properties[idx].houses

\* C39: for every game in which the bot is a player, get_build_targets
\* completes and returns, in the order of the group priorities, exactly one
\* tile of least house count for each colour group the bot owns whole and
\* unmortgaged, can pay the build cost of and has fewer than five houses on
\* some tile of, and no tile of any other group.
C39_BuildTargets ==
    (lastOp.type = "GetBuildTargets" /\ HasPlayer(game, lastOp.player))
        => /\ result = "Ok"
           /\ RightTargets(game, lastOp.player, bcast)

\* floor(balance * pct / 100), computed without a product above 2^31.
FloorShare(balance, pct) ==
    (balance \div 100) * pct + ((balance % 100) * pct) \div 100

\* The percentage of the (priority, near-set) table for the bot and the tile.
TablePercent(g, bot_id, tile_idx) ==
    LET group == get_tile(tile_idx).group
    IN  max_percent(PriorityOf(group),
                    Cardinality({idx \in GroupTiles(group) :
                                    /\ idx \in DOMAIN g.properties
                                    /\ g.properties[idx].owner = bot_id}),
                    property_count(group))

\* C40: should_buy(bot, tile) returns true exactly when tile.price is at most
\* floor(balance * pct / 100), pct taken from the (priority, near-set) table,
\* for every balance of the signed 32-bit range: false whenever the balance
\* is not positive, and the spend limit is computed without overflow or
\* wrap-around.
C40_ShouldBuy ==
    (/\ lastOp.type = "ShouldBuy"
     /\ HasPlayer(game, lastOp.player)
     /\ get_tile(bcast[1]).group # NoGroup)
        => LET balance == get_player(game, lastOp.player).balance
               limit == FloorShare(balance,
                                   TablePercent(game, lastOp.player, bcast[1]))
           IN  /\ result # "Panic"
               /\ (result = "True") <=> (get_tile(bcast[1]).price <= limit)
               /\ balance <= 0 => result = "False"

=============================================================================
